---- MODULE Spec2Model ----
(***************************************************************************)
(* Verification model of cv-analyzer: the entity extraction and           *)
(* normalization core (modules/entity_extractor.py,                       *)
(* modules/date_normalizer.py, modules/skills_matcher.py), the validator  *)
(* (modules/validation.py), the bulk mode of cli.py and the JSON export   *)
(* (modules/exporter.py).                                                  *)
(*                                                                         *)
(* Strings are sequences of one-character strings, so that substring      *)
(* tests, lower-casing, regular-expression matching and number formatting *)
(* are computed, not assumed.  Python offsets are 0-based; the model      *)
(* keeps 1-based indices internally and converts where a position is      *)
(* reported.                                                               *)
(***************************************************************************)
EXTENDS Integers, Sequences, FiniteSets, TLC

\* ------------------------------------------------------------------------
\* Characters and strings
\* ------------------------------------------------------------------------

UpperSeq ==
  <<"A","B","C","D","E","F","G","H","I","J","K","L","M",
    "N","O","P","Q","R","S","T","U","V","W","X","Y","Z">>

LowerSeq ==
  <<"a","b","c","d","e","f","g","h","i","j","k","l","m",
    "n","o","p","q","r","s","t","u","v","w","x","y","z">>

DigitSeq == <<"0","1","2","3","4","5","6","7","8","9">>

Range(s) == { s[i] : i \in DOMAIN s }

UpperSet == Range(UpperSeq)

LowerSet == Range(LowerSeq)

Digits == Range(DigitSeq)

Letters == UpperSet \cup LowerSet

\* \w of Python's re for the characters the model uses
WordChars == Letters \cup Digits \cup {"_"}

\* \s of Python's re for the characters the model uses
Spaces == {" "}

ToLower ==
  [c \in UpperSet |-> LowerSeq[CHOOSE i \in DOMAIN UpperSeq : UpperSeq[i] = c]]

\* str.lower() on one character
LowerChar(c) == IF c \in UpperSet THEN ToLower[c] ELSE c

\* str.lower()
Lower(t) == [i \in DOMAIN t |-> LowerChar(t[i])] \o <<>>

DigitVal == [c \in Digits |-> (CHOOSE i \in DOMAIN DigitSeq : DigitSeq[i] = c) - 1]

RECURSIVE ToInt(_)
\* int() of a string of decimal digits
ToInt(ds) ==
  IF ds = <<>> THEN 0
  ELSE 10 * ToInt(SubSeq(ds, 1, Len(ds) - 1)) + DigitVal[ds[Len(ds)]]

\* format(n, "02d") for 0 <= n <= 99
Fmt02(n) == <<DigitSeq[(n \div 10) + 1], DigitSeq[(n % 10) + 1]>>

Min(a, b) == IF a < b THEN a ELSE b

\* Python's "k in t" for strings
Contains(t, k) ==
  \/ k = <<>>
  \/ \E i \in 1..(Len(t) - Len(k) + 1) : t[i] = k[1] /\ SubSeq(t, i, i + Len(k) - 1) = k

\* Python's t.find(k), as a 1-based index; 0 when k does not occur
Find(t, k) ==
  IF Contains(t, k)
  THEN CHOOSE i \in 1..(Len(t) - Len(k) + 1) :
         /\ SubSeq(t, i, i + Len(k) - 1) = k
         /\ \A j \in 1..(i - 1) : SubSeq(t, j, j + Len(k) - 1) # k
  ELSE 0

RECURSIVE Join(_, _)
\* sep.join(parts)
Join(parts, sep) ==
  IF parts = <<>> THEN <<>>
  ELSE IF Len(parts) = 1 THEN parts[1]
  ELSE parts[1] \o sep \o Join(Tail(parts), sep)

RECURSIVE LStrip(_)
LStrip(t) == IF t # <<>> /\ t[1] \in Spaces THEN LStrip(Tail(t)) ELSE t

RECURSIVE RStrip(_)
RStrip(t) ==
  IF t # <<>> /\ t[Len(t)] \in Spaces THEN RStrip(SubSeq(t, 1, Len(t) - 1)) ELSE t

\* str.strip()
Strip(t) == LStrip(RStrip(t))

RECURSIVE SplitFrom(_, _, _)
SplitFrom(t, i, cur) ==
  IF i > Len(t) THEN (IF cur = <<>> THEN <<>> ELSE <<cur>>)
  ELSE IF t[i] \in Spaces
       THEN (IF cur = <<>> THEN <<>> ELSE <<cur>>) \o SplitFrom(t, i + 1, <<>>)
       ELSE SplitFrom(t, i + 1, Append(cur, t[i]))

\* str.split(): the whitespace-delimited words
Split(t) == SplitFrom(t, 1, <<>>)

\* ------------------------------------------------------------------------
\* A backtracking matcher for the regular expressions of the source.
\* A pattern is a sequence of items, tried left to right with Python's
\* priorities (greedy quantifiers, alternatives in written order):
\*   [k |-> "set", cs, lo, hi]  a character class repeated lo..hi times
\*   [k |-> "alt", opts]        one of the literal strings opts, in order
\*   [k |-> "wb"]               \b
\*   [k |-> "end"]              $ (no text of the model ends in a newline)
\* ------------------------------------------------------------------------

Cls(cs, lo, hi) == [k |-> "set", cs |-> cs, lo |-> lo, hi |-> hi]

\* the alternatives that start with the character c, in their order
OptsWith(opts, c) == SelectSeq(opts, LAMBDA s : s[1] = c)

\* first: the characters an alternative can start with; by: for each of
\* them the alternatives it starts, so that only those are tried
Alt(opts) ==
  LET first == { opts[i][1] : i \in DOMAIN opts } IN
  [k |-> "alt", opts |-> opts, first |-> first,
   by |-> [c \in first |-> OptsWith(opts, c)]]

Wb == [k |-> "wb"]

End == [k |-> "end"]

Lit(c) == Cls({c}, 1, 1)

\* "+" and "{n,}": at least lo times, no upper limit (hi < 0 never runs out)
AtLeast(cs, lo) == Cls(cs, lo, -1)

IsWordAt(t, p) == p >= 1 /\ p <= Len(t) /\ t[p] \in WordChars

\* \b at the gap before position p
WordBoundary(t, p) == IsWordAt(t, p - 1) # IsWordAt(t, p)

RECURSIVE RunLen(_, _, _, _)
\* how many characters from position p on are in the class, at most hi
RunLen(t, p, cs, hi) ==
  IF hi = 0 \/ p > Len(t) \/ t[p] \notin cs THEN 0
  ELSE 1 + RunLen(t, p + 1, cs, hi - 1)

LitAt(t, p, s) ==
  /\ p + Len(s) - 1 <= Len(t)
  /\ t[p] = s[1]
  /\ SubSeq(t, p, p + Len(s) - 1) = s

RECURSIVE MatchFrom(_, _, _, _)
RECURSIVE TryCount(_, _, _, _, _)
RECURSIVE TryAlt(_, _, _, _, _)

\* The position after the match of pat[idx..] at position p of t, or 0.
MatchFrom(pat, idx, t, p) ==
  IF idx > Len(pat) THEN p
  ELSE LET it == pat[idx] IN
    CASE it.k = "wb" ->
           IF WordBoundary(t, p) THEN MatchFrom(pat, idx + 1, t, p) ELSE 0
      [] it.k = "end" ->
           IF p = Len(t) + 1 THEN MatchFrom(pat, idx + 1, t, p) ELSE 0
      [] it.k = "set" ->
           TryCount(pat, idx, t, p, RunLen(t, p, it.cs, it.hi))
      [] it.k = "alt" ->
           IF p <= Len(t) /\ t[p] \in it.first
           THEN TryAlt(pat, idx, t, p, it.by[t[p]]) ELSE 0

\* greedy: the longest repetition first, then shorter ones
TryCount(pat, idx, t, p, n) ==
  IF n < pat[idx].lo THEN 0
  ELSE LET r == MatchFrom(pat, idx + 1, t, p + n) IN
       IF r > 0 THEN r ELSE TryCount(pat, idx, t, p, n - 1)

\* the alternatives opts in their order, the first that lets the rest match
TryAlt(pat, idx, t, p, opts) ==
  IF opts = <<>> THEN 0
  ELSE LET r == IF LitAt(t, p, opts[1])
                THEN MatchFrom(pat, idx + 1, t, p + Len(opts[1]))
                ELSE 0 IN
       IF r > 0 THEN r ELSE TryAlt(pat, idx, t, p, Tail(opts))

RECURSIVE PatStarts(_, _)
\* The characters a match of pat[idx..] can start with.  No pattern of the
\* source matches the empty string.
PatStarts(pat, idx) ==
  IF idx > Len(pat) THEN {}
  ELSE LET it == pat[idx] IN
    CASE it.k \in {"wb", "end"} -> PatStarts(pat, idx + 1)
      [] it.k = "alt" -> it.first
      [] it.k = "set" -> it.cs \cup (IF it.lo = 0 THEN PatStarts(pat, idx + 1) ELSE {})

RECURSIVE SearchIn(_, _, _)
\* the leftmost match that starts at one of the positions cand
SearchIn(pat, t, cand) ==
  IF cand = {} THEN <<0, 0>>
  ELSE LET p == CHOOSE q \in cand : \A r \in cand : q <= r IN
       LET e == MatchFrom(pat, 1, t, p) IN
       IF e > 0 THEN <<p, e>> ELSE SearchIn(pat, t, cand \ {p})

\* re.search from position p on: <<start, end>> of the leftmost match (end is
\* the position after it), or <<0, 0>>.  Only the positions that hold a
\* character the pattern can start with are tried.
SearchFrom(pat, t, p) ==
  LET starts == PatStarts(pat, 1) IN
  SearchIn(pat, t, { q \in p..Len(t) : t[q] \in starts })

Search(pat, t) == SearchFrom(pat, t, 1)

RECURSIVE FindAllFrom(_, _, _)
\* re.finditer / re.findall: the non-overlapping matches, left to right
FindAllFrom(pat, t, p) ==
  LET m == SearchFrom(pat, t, p) IN
  IF m[1] = 0 THEN <<>> ELSE <<m>> \o FindAllFrom(pat, t, m[2])

FindAll(pat, t) == FindAllFrom(pat, t, 1)

\* re.finditer(pattern, text, re.IGNORECASE) for a pattern whose literals are
\* written in lower case and whose classes hold no letter: the matches of
\* the pattern in the lower-cased text
FindAllIgnoreCase(pat, t) == FindAllFrom(pat, Lower(t), 1)

\* match.group(0)
Group0(t, m) == SubSeq(t, m[1], m[2] - 1)

\* ------------------------------------------------------------------------
\* The annotated document (a spaCy Doc) as the extractor reads it
\* ------------------------------------------------------------------------

\* Python's None; no text is equal to it
None == <<"<None>">>

\* Python's "not x" for a string or None
Falsy(x) == x = None \/ x = <<>>

\* A token: its text, the label of the entity it is (or "O"), its part of speech
Tok(txt, label, pos) == [txt |-> txt, label |-> label, pos |-> pos]

\* The sentences documents are made of.  No keyword that holds a space, no
\* e-mail address, phone number or postal code can start in one of them and
\* end in the next.
SentVocab ==
  << <<Tok(<<"A","l","i","c","e">>, "PERSON", "PROPN"), Tok(<<"a","@","b",".","i","o">>, "O", "X")>>,
     <<Tok(<<"B","o","b">>, "PERSON", "PROPN")>>,
     <<Tok(<<"c","@","d",".","c","o">>, "O", "X"), Tok(<<"0","8","1","2","-","3","4","5","6","-","7","8","9">>, "O", "NUM")>>,
     <<Tok(<<"J","a","v","a","S","c","r","i","p","t">>, "O", "PROPN")>>,
     <<Tok(<<"S","Q","L">>, "SKILL", "PROPN")>>,
     <<Tok(<<"d","i","p","l","o","m","a">>, "O", "NOUN"), Tok(<<"M","I","T">>, "ORG", "PROPN"),
       Tok(<<"2","0","1","9">>, "DATE", "NUM")>>,
     <<Tok(<<"w","o","r","k">>, "O", "NOUN"), Tok(<<"A","c","m","e">>, "ORG", "PROPN")>>,
     <<Tok(<<"e","d","u","c","a","t","i","o","n">>, "O", "NOUN"), Tok(<<"w","o","r","k">>, "O", "NOUN"),
       Tok(<<"B","i","n","u","s">>, "ORG", "PROPN"), Tok(<<"2","0","2","0">>, "DATE", "NUM"),
       Tok(<<"2","0","2","2">>, "DATE", "NUM")>>,
     <<Tok(<<"c","e","r","t","i","f","i","e","d">>, "O", "VERB"), Tok(<<"A","W","S">>, "O", "PROPN"),
       Tok(<<"f","l","u","e","n","t">>, "O", "ADJ"), Tok(<<"E","n","g","l","i","s","h">>, "O", "PROPN")>>,
     <<Tok(<<"J","a","k","a","r","t","a">>, "GPE", "PROPN"), Tok(<<"1","2","3","4","5">>, "O", "NUM")>>,
     <<Tok(<<"S","u","m","m","a","r","y">>, "O", "NOUN"), Tok(<<"b","u","i","l","d","s">>, "O", "VERB"),
       Tok(<<"t","o","o","l","s">>, "O", "NOUN")>>,
     <<Tok(<<"E","d","u","c","a","t","i","o","n">>, "O", "NOUN"), Tok(<<"w","o","r","k">>, "O", "NOUN"),
       Tok(<<"2","0","1","8">>, "DATE", "NUM")>>,
     <<Tok(<<"d","e","g","r","e","e">>, "O", "NOUN"), Tok(<<"j","o","b">>, "O", "NOUN"),
       Tok(<<"A","c","m","e">>, "ORG", "PROPN"), Tok(<<"M","I","T">>, "ORG", "PROPN"),
       Tok(<<"2","0","1","5">>, "DATE", "NUM"), Tok(<<"J","u","n","e"," ","2","0","1","6">>, "DATE", "NUM"),
       Tok(<<"2","0","1","7">>, "DATE", "NUM")>>,
     <<Tok(<<"P","e","n","d","i","d","i","k","a","n">>, "O", "NOUN"), Tok(<<"k","e","r","j","a">>, "O", "NOUN"),
       Tok(<<"U","I">>, "ORG", "PROPN")>>,
     <<Tok(<<"s","u","m","m","a","r","y">>, "O", "NOUN"), Tok(<<"l","e","a","d","s">>, "O", "VERB"),
       Tok(<<"t","e","a","m","s">>, "O", "NOUN")>> >>

SentIds == DOMAIN SentVocab

\* How many sentences a document of the model has at most
MaxSents == 3

RECURSIVE SeqsUpTo(_, _)
\* the sequences over S of length at most n
SeqsUpTo(S, n) ==
  IF n = 0 THEN {<<>>}
  ELSE LET shorter == SeqsUpTo(S, n - 1) IN
       shorter \cup { Append(q, x) : q \in {r \in shorter : Len(r) = n - 1}, x \in S }

\* The last four sentences appear in the documents of SpecHistory only: a
\* keyword and no organization, two organizations and three dates,
\* Indonesian keywords, a summary header in lower case
HistorySents == {12, 13, 14, 15}

\* A document is the sequence of its sentences (doc.sents), each an index
\* into SentVocab
Docs == SeqsUpTo(SentIds \ HistorySents, MaxSents)

\* sent.text
SentText == [s \in SentIds |-> Join([i \in DOMAIN SentVocab[s] |-> SentVocab[s][i].txt], <<" ">>)]

SentLower == [s \in SentIds |-> Lower(SentText[s])]

\* doc.text
DocText(doc) == Join([i \in DOMAIN doc |-> SentText[doc[i]]], <<" ">>)

RECURSIVE SelectIdx(_, _, _)
SelectIdx(s, i, keep) ==
  IF i > Len(s) THEN <<>>
  ELSE (IF s[i] \in keep THEN <<i>> ELSE <<>>) \o SelectIdx(s, i + 1, keep)

\* [ent.text for ent in sent.ents if ent.label_ in labels], in order
SentEnts(s, labels) ==
  LET toks == SentVocab[s] IN
  LET idx == SelectIdx([i \in DOMAIN toks |-> toks[i].label], 1, labels) IN
  [j \in DOMAIN idx |-> toks[idx[j]].txt]

RECURSIVE Flatten(_)
Flatten(ss) == IF ss = <<>> THEN <<>> ELSE ss[1] \o Flatten(Tail(ss))

\* [ent.text for ent in doc.ents if ent.label_ in labels], in document order
DocEnts(doc, labels) == Flatten([i \in DOMAIN doc |-> SentEnts(doc[i], labels)])

\* ------------------------------------------------------------------------
\* EntityExtractor: regular expressions and keyword tables
\* ------------------------------------------------------------------------

EmailLocal == Letters \cup Digits \cup {".", "_", "%", "+", "-"}

EmailDomain == Letters \cup Digits \cup {".", "-"}

\* \b[A-Za-z0-9._%+-]+@[A-Za-z0-9.-]+\.[A-Z|a-z]{2,}\b
email_regex ==
  <<Wb, AtLeast(EmailLocal, 1), Lit("@"), AtLeast(EmailDomain, 1), Lit("."),
    AtLeast(Letters \cup {"|"}, 2), Wb>>

PhoneSep == {"-", ".", " "}

\* \(?\d{3,4}\)?[-.\s]?\d{3,4}[-.\s]?\d{3,4}\b
PhoneBody ==
  <<Cls({"("}, 0, 1), Cls(Digits, 3, 4), Cls({")"}, 0, 1), Cls(PhoneSep, 0, 1),
    Cls(Digits, 3, 4), Cls(PhoneSep, 0, 1), Cls(Digits, 3, 4), Wb>>

\* \b(?:\+\d{1,3}[-.\s]?)?\(?\d{3,4}\)?[-.\s]?\d{3,4}[-.\s]?\d{3,4}\b: the
\* optional group is tried first, then the pattern without it
phone_regex ==
  << <<Wb, Lit("+"), Cls(Digits, 1, 3), Cls(PhoneSep, 0, 1)>> \o PhoneBody,
     <<Wb>> \o PhoneBody >>

\* \b\d{5}\b, the same for both languages
postal_pattern == <<Wb, Cls(Digits, 5, 5), Wb>>

RECURSIVE SearchAnyFrom(_, _, _)
\* re.search for a pattern given as alternatives in priority order
SearchAnyFrom(pats, t, p) ==
  IF p > Len(t) THEN <<0, 0>>
  ELSE LET e1 == MatchFrom(pats[1], 1, t, p) IN
       LET e2 == MatchFrom(pats[2], 1, t, p) IN
       IF e1 > 0 THEN <<p, e1>>
       ELSE IF e2 > 0 THEN <<p, e2>>
       ELSE SearchAnyFrom(pats, t, p + 1)

RECURSIVE FindAllAnyFrom(_, _, _)
FindAllAnyFrom(pats, t, p) ==
  LET m == SearchAnyFrom(pats, t, p) IN
  IF m[1] = 0 THEN <<>> ELSE <<m>> \o FindAllAnyFrom(pats, t, m[2])

Texts(t, ms) == [i \in DOMAIN ms |-> Group0(t, ms[i])]

\* re.findall(self.email_regex, sent.text), and the same for phones and
\* postal codes, computed once per sentence of the vocabulary
SentEmails == [s \in SentIds |-> Texts(SentText[s], FindAll(email_regex, SentText[s]))]

SentPhones == [s \in SentIds |-> Texts(SentText[s], FindAllAnyFrom(phone_regex, SentText[s], 1))]

SentPostals == [s \in SentIds |-> Texts(SentText[s], FindAll(postal_pattern, SentText[s]))]

\* re.match(self.email_regex, x): a match at the start of x
EmailMatchesAtStart(x) == MatchFrom(email_regex, 1, x, 1) > 0

PhoneMatchesAtStart(x) ==
  MatchFrom(phone_regex[1], 1, x, 1) > 0 \/ MatchFrom(phone_regex[2], 1, x, 1) > 0

education_keywords ==
  [eng |-> <<<<"e","d","u","c","a","t","i","o","n">>, <<"u","n","i","v","e","r","s","i","t","y">>, <<"c","o","l","l","e","g","e">>, <<"d","e","g","r","e","e">>, <<"b","a","c","h","e","l","o","r">>,
             <<"m","a","s","t","e","r">>, <<"p","h","d">>, <<"d","i","p","l","o","m","a">>>>,
   ind |-> <<<<"p","e","n","d","i","d","i","k","a","n">>, <<"u","n","i","v","e","r","s","i","t","a","s">>, <<"k","u","l","i","a","h">>, <<"g","e","l","a","r">>, <<"s","a","r","j","a","n","a">>,
             <<"m","a","g","i","s","t","e","r">>, <<"d","o","k","t","o","r">>, <<"d","i","p","l","o","m","a">>>>]

experience_keywords ==
  [eng |-> <<<<"e","x","p","e","r","i","e","n","c","e">>, <<"w","o","r","k">>, <<"e","m","p","l","o","y","m","e","n","t">>, <<"j","o","b">>, <<"p","o","s","i","t","i","o","n">>,
             <<"r","o","l","e">>, <<"c","a","r","e","e","r">>>>,
   ind |-> <<<<"p","e","n","g","a","l","a","m","a","n">>, <<"k","e","r","j","a">>, <<"p","e","k","e","r","j","a","a","n">>, <<"p","o","s","i","s","i">>, <<"j","a","b","a","t","a","n">>,
             <<"k","a","r","i","r">>>>]

\* extract_languages knows English keywords only
language_keywords ==
  [eng |-> <<<<"l","a","n","g","u","a","g","e">>, <<"l","a","n","g","u","a","g","e","s">>, <<"s","p","e","a","k">>, <<"f","l","u","e","n","t">>>>]

common_languages ==
  <<<<"E","n","g","l","i","s","h">>, <<"I","n","d","o","n","e","s","i","a","n">>, <<"F","r","e","n","c","h">>, <<"S","p","a","n","i","s","h">>, <<"G","e","r","m","a","n">>, <<"C","h","i","n","e","s","e">>>>

\* extract_certifications knows English keywords only
cert_keywords ==
  [eng |-> <<<<"c","e","r","t","i","f","i","c","a","t","i","o","n">>, <<"c","e","r","t","i","f","i","c","a","t","e">>, <<"c","e","r","t","i","f","i","e","d">>>>]

summary_headers ==
  [eng |-> <<<<"s","u","m","m","a","r","y">>, <<"p","r","o","f","i","l","e">>, <<"p","r","o","f","e","s","s","i","o","n","a","l"," ","s","u","m","m","a","r","y">>, <<"a","b","o","u","t"," ","m","e">>>>,
   ind |-> <<<<"r","i","n","g","k","a","s","a","n">>, <<"p","r","o","f","i","l">>, <<"t","e","n","t","a","n","g"," ","s","a","y","a">>>>]

programming_skills ==
  <<<<"P","y","t","h","o","n">>, <<"J","a","v","a">>, <<"J","a","v","a","S","c","r","i","p","t">>, <<"H","T","M","L">>, <<"C","S","S">>, <<"S","Q","L">>>>

AllTables ==
  {education_keywords, experience_keywords, language_keywords, cert_keywords,
   summary_headers}

\* Which words of a keyword table each sentence of the vocabulary holds,
\* computed once: HasKw[s][w] for a lower-cased word w
AllKeywords ==
  UNION { UNION { Range(tbl[l]) : l \in DOMAIN tbl } : tbl \in AllTables }
    \cup { Lower(x) : x \in Range(programming_skills) \cup Range(common_languages) }

SentHolds == [s \in SentIds |-> { w \in AllKeywords : Contains(SentLower[s], w) }]

\* any(keyword in sent.text.lower() for keyword in keywords)
SentHasAny(s, keywords) == \E i \in DOMAIN keywords : keywords[i] \in SentHolds[s]

\* ------------------------------------------------------------------------
\* EntityExtractor: the field extractors
\* ------------------------------------------------------------------------

\* An extractor either returns a value or raises; table[lang_code] on a table
\* without that key raises KeyError
Ok(v) == [raised |-> FALSE, val |-> v]

KeyError == [raised |-> TRUE, val |-> "KeyError"]

\* A faulty variant: a lookup that falls back to the English table
LookupOrEnglish(table, lang_code) ==
  IF lang_code \in DOMAIN table THEN Ok(table[lang_code]) ELSE Ok(table["eng"])

\* table[lang_code]
Lookup(table, lang_code) ==
  IF lang_code \in DOMAIN table THEN Ok(table[lang_code]) ELSE KeyError

First(s) == IF s = <<>> THEN None ELSE s[1]

\* list[:n]
Take(s, n) == SubSeq(s, 1, Min(n, Len(s)))

\* re.findall over doc.text, sentence by sentence
DocMatches(doc, perSent) == Flatten([i \in DOMAIN doc |-> perSent[doc[i]]])

extract_address(doc, lang_code) ==
  LET address_entities == DocEnts(doc, {"GPE", "LOC"}) IN
  LET postal_matches == DocMatches(doc, SentPostals) IN
  IF address_entities # <<>> /\ postal_matches # <<>>
  THEN Join(Take(address_entities, 2) \o Take(postal_matches, 1), <<","," ">>)
  ELSE IF address_entities # <<>>
  THEN Join(Take(address_entities, 2), <<","," ">>)
  ELSE None

extract_personal_info(doc, lang_code) ==
  [name |-> First(DocEnts(doc, {"PERSON"})),
   email |-> First(DocMatches(doc, SentEmails)),
   phone |-> First(DocMatches(doc, SentPhones)),
   address |-> extract_address(doc, lang_code)]

\* skill.lower() in doc.text.lower(); no skill name holds a space
DocHolds(doc, w) == \E i \in DOMAIN doc : w \in SentHolds[doc[i]]

\* list(set(skills)): the order of the result is not defined, so it is a set
extract_skills(doc, lang_code) ==
  Range(DocEnts(doc, {"SKILL"}))
    \cup { programming_skills[i] : i \in
             { j \in DOMAIN programming_skills : DocHolds(doc, Lower(programming_skills[j])) } }

\* A faulty variant: every date of the sentence is kept
DatesField_uncut(dates) == IF dates # <<>> THEN dates ELSE None

\* dates[:2] if dates else None
DatesField(dates) == IF dates # <<>> THEN Take(dates, 2) ELSE None

RECURSIVE EducationEntries(_, _, _)
EducationEntries(doc, i, keywords) ==
  IF i > Len(doc) THEN <<>>
  ELSE LET orgs == SentEnts(doc[i], {"ORG"}) IN
       (IF SentHasAny(doc[i], keywords) /\ orgs # <<>>
        THEN << [institution |-> orgs[1], degree |-> None, field |-> None,
                 dates |-> DatesField(SentEnts(doc[i], {"DATE"}))] >>
        ELSE <<>>)
       \o EducationEntries(doc, i + 1, keywords)

\* education_keywords[lang_code] is evaluated before the loop over doc.sents
extract_education(doc, lang_code) ==
  LET keywords == Lookup(education_keywords, lang_code) IN
  IF keywords.raised THEN KeyError
  ELSE Ok(EducationEntries(doc, 1, keywords.val))

RECURSIVE ExperienceEntries(_, _, _)
ExperienceEntries(doc, i, keywords) ==
  IF i > Len(doc) THEN <<>>
  ELSE LET orgs == SentEnts(doc[i], {"ORG"}) IN
       (IF SentHasAny(doc[i], keywords) /\ orgs # <<>>
        THEN << [company |-> orgs[1], title |-> None,
                 dates |-> DatesField(SentEnts(doc[i], {"DATE"})),
                 responsibilities |-> <<>>] >>
        ELSE <<>>)
       \o ExperienceEntries(doc, i + 1, keywords)

\* experience_keywords[lang_code] is evaluated before the loop over doc.sents
extract_work_experience(doc, lang_code) ==
  LET keywords == Lookup(experience_keywords, lang_code) IN
  IF keywords.raised THEN KeyError
  ELSE Ok(ExperienceEntries(doc, 1, keywords.val))

\* the languages named in the sentences that hold a keyword
LanguagesIn(doc, keywords) ==
  { common_languages[j] : j \in
      { k \in DOMAIN common_languages :
          \E i \in DOMAIN doc :
            /\ SentHasAny(doc[i], keywords)
            /\ Lower(common_languages[k]) \in SentHolds[doc[i]] } }

\* A faulty variant: the keyword table is looked up before the loop
extract_languages_eager(doc, lang_code) ==
  LET keywords == Lookup(language_keywords, lang_code) IN
  IF keywords.raised THEN KeyError ELSE Ok(LanguagesIn(doc, keywords.val))

\* language_keywords[lang_code] is evaluated inside the loop over doc.sents:
\* with no sentence it is never evaluated
extract_languages(doc, lang_code) ==
  IF doc = <<>> THEN Ok({})
  ELSE LET keywords == Lookup(language_keywords, lang_code) IN
       IF keywords.raised THEN KeyError ELSE Ok(LanguagesIn(doc, keywords.val))

\* token.text for the PROPN tokens of a sentence longer than 2 characters
SentPropn(s) ==
  { SentVocab[s][i].txt : i \in
      { j \in DOMAIN SentVocab[s] :
          SentVocab[s][j].pos = "PROPN" /\ Len(SentVocab[s][j].txt) > 2 } }

\* cert_keywords[lang_code] is evaluated inside the loop over doc.sents
extract_certifications(doc, lang_code) ==
  IF doc = <<>> THEN Ok({})
  ELSE LET keywords == Lookup(cert_keywords, lang_code) IN
       IF keywords.raised THEN KeyError
       ELSE Ok(UNION { SentPropn(doc[i]) : i \in
                         { j \in DOMAIN doc : SentHasAny(doc[j], keywords.val) } })

\* section_text[pos:pos+300]
SummaryWindow == 300

\* str.replace(old, '', 1)
RemoveFirst(t, old) ==
  LET p == Find(t, old) IN
  IF p = 0 THEN t ELSE SubSeq(t, 1, p - 1) \o SubSeq(t, p + Len(old), Len(t))

RECURSIVE CutAtNextHeaders(_, _, _, _)
\* for next_header in headers: cut the section where another header starts
CutAtNextHeaders(section, headers, j, header) ==
  IF j > Len(headers) THEN section
  ELSE LET p == Find(Lower(section), headers[j]) IN
       CutAtNextHeaders(
         IF headers[j] # header /\ p > 0 THEN SubSeq(section, 1, p - 1) ELSE section,
         headers, j + 1, header)

SummaryAfter(doc, headers, header) ==
  LET text == DocText(doc) IN
  LET pos == Find(Lower(text), header) IN
  LET section == SubSeq(text, pos, Min(Len(text), pos + SummaryWindow - 1)) IN
  Strip(RemoveFirst(CutAtNextHeaders(section, headers, 1, header), header))

\* len(sent.text.split())
SentWords == [s \in SentIds |-> Len(Split(SentText[s]))]

\* the first of the first three sentences with more than 10 words
SummaryFallback(doc) ==
  LET long == SelectIdx([i \in DOMAIN Take(doc, 3) |-> SentWords[doc[i]] > 10], 1, {TRUE}) IN
  IF long = <<>> THEN None ELSE SentText[doc[long[1]]]

extract_summary(doc, lang_code) ==
  LET table == Lookup(summary_headers, lang_code) IN
  IF table.raised THEN KeyError
  ELSE LET headers == table.val IN
       LET found == SelectIdx([j \in DOMAIN headers |-> DocHolds(doc, headers[j])], 1, {TRUE}) IN
       IF found # <<>> THEN Ok(SummaryAfter(doc, headers, headers[found[1]]))
       ELSE Ok(SummaryFallback(doc))

\* ------------------------------------------------------------------------
\* EntityExtractor: confidence scores.  A score is kept in hundredths
\* (0.5 is 50); the personal_info score is a quotient, kept as num/den.
\* ------------------------------------------------------------------------

\* A faulty variant: the skills rule is checked before the name/email rule
calculate_overall_confidence_skills_first(result) ==
  IF result.skills = {} \/ Cardinality(result.skills) < 2 THEN 60
  ELSE IF Falsy(result.personal_info.name) \/ Falsy(result.personal_info.email) THEN 50
  ELSE IF result.education = <<>> \/ result.work_experience = <<>> THEN 70
  ELSE 90

calculate_overall_confidence(result) ==
  IF Falsy(result.personal_info.name) \/ Falsy(result.personal_info.email) THEN 50
  ELSE IF result.skills = {} \/ Cardinality(result.skills) < 2 THEN 60
  ELSE IF result.education = <<>> \/ result.work_experience = <<>> THEN 70
  ELSE 90

\* A faulty variant: every field that is present counts, valid or not
calculate_personal_info_confidence_count_present(personal_info) ==
  LET nm == ~Falsy(personal_info.name) IN
  LET em == ~Falsy(personal_info.email) IN
  LET ph == ~Falsy(personal_info.phone) IN
  LET ad == ~Falsy(personal_info.address) IN
  LET score == (IF nm THEN 100 ELSE 0)
                 + (IF em /\ EmailMatchesAtStart(personal_info.email) THEN 100 ELSE 0)
                 + (IF ph /\ PhoneMatchesAtStart(personal_info.phone) THEN 100 ELSE 0)
                 + (IF ad THEN 80 ELSE 0) IN
  LET count == (IF nm THEN 1 ELSE 0) + (IF em THEN 1 ELSE 0)
                 + (IF ph THEN 1 ELSE 0) + (IF ad THEN 1 ELSE 0) IN
  IF count > 0 THEN [num |-> score, den |-> count] ELSE [num |-> 0, den |-> 1]

\* score / count: name 1.0, valid email 1.0, valid phone 1.0, address 0.8
calculate_personal_info_confidence(personal_info) ==
  LET nm == ~Falsy(personal_info.name) IN
  LET em == ~Falsy(personal_info.email) /\ EmailMatchesAtStart(personal_info.email) IN
  LET ph == ~Falsy(personal_info.phone) /\ PhoneMatchesAtStart(personal_info.phone) IN
  LET ad == ~Falsy(personal_info.address) IN
  LET score == (IF nm THEN 100 ELSE 0) + (IF em THEN 100 ELSE 0)
                 + (IF ph THEN 100 ELSE 0) + (IF ad THEN 80 ELSE 0) IN
  LET count == (IF nm THEN 1 ELSE 0) + (IF em THEN 1 ELSE 0)
                 + (IF ph THEN 1 ELSE 0) + (IF ad THEN 1 ELSE 0) IN
  IF count > 0 THEN [num |-> score, den |-> count] ELSE [num |-> 0, den |-> 1]

ListConfidence(empty) == IF empty THEN 0 ELSE 85

\* The seven extractors run in the order of the dict literal; the first one
\* that raises ends the call and no record is built.
extract_entities(doc, lang_code) ==
  LET personal_info == extract_personal_info(doc, lang_code) IN
  LET skills == extract_skills(doc, lang_code) IN
  LET education == extract_education(doc, lang_code) IN
  LET work_experience == extract_work_experience(doc, lang_code) IN
  LET languages == extract_languages(doc, lang_code) IN
  LET certifications == extract_certifications(doc, lang_code) IN
  LET summary == extract_summary(doc, lang_code) IN
  IF \/ education.raised \/ work_experience.raised \/ languages.raised
     \/ certifications.raised \/ summary.raised
  THEN [kind |-> "raised", exc |-> "KeyError"]
  ELSE LET result == [personal_info |-> personal_info,
                      skills |-> skills,
                      education |-> education.val,
                      work_experience |-> work_experience.val,
                      languages |-> languages.val,
                      certifications |-> certifications.val,
                      summary |-> summary.val] IN
       [kind |-> "record",
        rec |-> [personal_info |-> result.personal_info,
                 skills |-> result.skills,
                 education |-> result.education,
                 work_experience |-> result.work_experience,
                 languages |-> result.languages,
                 certifications |-> result.certifications,
                 summary |-> result.summary,
                 confidence_scores |->
                   [overall |-> calculate_overall_confidence(result),
                    personal_info |-> calculate_personal_info_confidence(result.personal_info),
                    skills |-> ListConfidence(result.skills = {}),
                    education |-> ListConfidence(result.education = <<>>),
                    work_experience |-> ListConfidence(result.work_experience = <<>>)]]]

\* ------------------------------------------------------------------------
\* State
\* ------------------------------------------------------------------------

VARIABLES
  ee_doc,    \* the document handed to extract_entities
  ee_lang,   \* the language tag handed to it
  ee_out,    \* what the call gave: nothing yet, a record, or an exception
  dn_text,   \* the text handed to the DateNormalizer
  dn_lang,   \* the language tag handed to it
  dn_today,  \* datetime.now().strftime('%Y-%m-%d')
  dn_out,    \* what the call gave: nothing yet, the spans, or the range
  sm_skills_dict,      \* SkillsMatcher.skills_dict: per language, the skills
                       \* in the order the set iterates
  sm_fuzzy_threshold,  \* SkillsMatcher.fuzzy_threshold
  sm_lib,    \* the rapidfuzz release the program runs with
  sm_text,   \* the text handed to SkillsMatcher.extract_skills
  sm_lang,   \* the language tag handed to it
  sm_out,    \* what the call gave: nothing yet, a list, or an exception
  sm_files,  \* the skill dictionary files the configuration names
  sm_pc,     \* "new" before SkillsMatcher.__init__ has run, "ready" after
  vd_before, \* the heap as the caller built it, before validate_extracted_data
  vd_heap,   \* the heap: the dicts of the record handed to the Validator
  vd_out,    \* what the call gave: nothing yet, or the dict it returned
  cli_files,    \* bulk mode: the files found under the input directory
  cli_language, \* args.language
  cli_stage,    \* per file, where its process_single_file call stands
  cli_future,   \* per file, what its future holds
  cli_temp,     \* whether the directory temp_extraction exists
  cli_next,     \* the future the loop of main waits for
  cli_results,  \* results, the list main hands to export_results
  cli_phase,    \* where main stands
  ex_data,      \* the record handed to export_json
  ex_file,      \* the text export_json wrote
  ex_out,       \* what a CSV or XLSX export gave: nothing yet, rows, or an exception
  rp_log        \* the calls one instance has served: operation, arguments, result

ee_vars == <<ee_doc, ee_lang, ee_out>>

dn_vars == <<dn_text, dn_lang, dn_today, dn_out>>

sm_vars ==
  <<sm_skills_dict, sm_fuzzy_threshold, sm_lib, sm_text, sm_lang, sm_out, sm_files, sm_pc>>

vd_vars == <<vd_before, vd_heap, vd_out>>

cli_vars ==
  <<cli_files, cli_language, cli_stage, cli_future, cli_temp, cli_next, cli_results, cli_phase>>

ex_vars == <<ex_data, ex_file, ex_out>>

rp_vars == <<rp_log>>

vars == <<ee_vars, dn_vars, sm_vars, vd_vars, cli_vars, ex_vars, rp_vars>>

SupportedLangs == {"eng", "ind"}

\* the tags a caller may pass: the supported ones and one that is not
LangTags == SupportedLangs \cup {"fra"}

Idle == [kind |-> "idle"]

\* a dictionary file that does not exist
Absent == [state |-> "absent", text |-> <<>>]

\* the component a specification does not exercise stays as constructed
EntitiesUnused == ee_doc = <<>> /\ ee_lang = "eng" /\ ee_out = Idle

DatesUnused == dn_text = <<>> /\ dn_lang = "eng" /\ dn_today = <<>> /\ dn_out = Idle

SkillsUnused ==
  /\ sm_skills_dict = [eng |-> <<>>, ind |-> <<>>]
  /\ sm_fuzzy_threshold = 0
  /\ sm_lib = "3.x"
  /\ sm_text = <<>>
  /\ sm_lang = "eng"
  /\ sm_out = Idle
  /\ sm_files = [eng |-> Absent, ind |-> Absent]
  /\ sm_pc = "ready"

ValidatorUnused == vd_before = <<>> /\ vd_heap = <<>> /\ vd_out = Idle

CliUnused ==
  /\ cli_files = <<>>
  /\ cli_language = "auto"
  /\ cli_stage = <<>>
  /\ cli_future = <<>>
  /\ cli_temp = FALSE
  /\ cli_next = 1
  /\ cli_results = <<>>
  /\ cli_phase = "idle"

ExporterUnused == ex_data = Idle /\ ex_file = <<>> /\ ex_out = Idle

RepeatUnused == rp_log = <<>>

InitEntities ==
  /\ ee_doc \in Docs
  /\ ee_lang \in LangTags
  /\ ee_out = Idle
  /\ DatesUnused
  /\ SkillsUnused
  /\ ValidatorUnused
  /\ CliUnused
  /\ ExporterUnused
  /\ RepeatUnused

ExtractEntities ==
  /\ ee_out = Idle
  /\ ee_out' = extract_entities(ee_doc, ee_lang)
  /\ UNCHANGED <<ee_doc, ee_lang, dn_vars, sm_vars, vd_vars, cli_vars, ex_vars, rp_vars>>

NextEntities == ExtractEntities

SpecEntities == InitEntities /\ [][NextEntities]_vars

\* ------------------------------------------------------------------------
\* Claims on extract_entities (checked under SpecEntities)
\* ------------------------------------------------------------------------

Returned == ee_out.kind = "record"

Called == ee_out # Idle

\* C1: the overall confidence of every returned record follows the ladder,
\* first matching rule first: name or email missing -> 0.5; else fewer than
\* 2 skills -> 0.6; else education or work_experience empty -> 0.7; else 0.9.
C1_RuleLadder ==
  Returned =>
    LET r == ee_out.rec IN
    r.confidence_scores.overall =
      IF r.personal_info.name = None \/ r.personal_info.email = None THEN 50
      ELSE IF Cardinality(r.skills) < 2 THEN 60
      ELSE IF r.education = <<>> \/ r.work_experience = <<>> THEN 70
      ELSE 90

\* C1's case: a record with no name but two skills, education and experience
\* is scored 0.5
C1_Witness ==
  /\ Returned
  /\ ee_out.rec.personal_info.name = None
  /\ Cardinality(ee_out.rec.skills) >= 2
  /\ ee_out.rec.education # <<>>
  /\ ee_out.rec.work_experience # <<>>
  /\ ee_out.rec.confidence_scores.overall = 50

\* C2: for both supported language tags and every document, extract_entities
\* returns a complete record: no field extractor raises.
C2_NoExtractorAborts ==
  (Called /\ ee_lang \in SupportedLangs) => Returned

C4_EmptyDocument ==
  (Called /\ ee_doc = <<>> /\ ee_lang \in SupportedLangs) =>
    /\ Returned
    /\ ee_out.rec.skills = {}
    /\ ee_out.rec.education = <<>>
    /\ ee_out.rec.work_experience = <<>>
    /\ ee_out.rec.languages = {}
    /\ ee_out.rec.certifications = {}
    /\ ee_out.rec.personal_info.name = None
    /\ ee_out.rec.personal_info.email = None
    /\ ee_out.rec.personal_info.phone = None
    /\ ee_out.rec.personal_info.address = None
    /\ ee_out.rec.summary = None
    /\ ee_out.rec.confidence_scores.overall = 50

\* C4's case: the empty document, also under the Indonesian tag
C4_Witness ==
  ee_doc = <<>> /\ ee_lang = "ind" /\ Returned

\* ------------------------------------------------------------------------
\* DateNormalizer: tables
\* ------------------------------------------------------------------------

\* [,.\s]+
DateGap == AtLeast({",", ".", " "}, 1)

\* [/\-]
DateSlash == Cls({"/", "-"}, 1, 1)

\* Jan(?:uary)?|Feb(?:ruary)?|...: at one position the longer form of a month
\* is tried before the shorter one.  The date patterns are matched with
\* re.IGNORECASE: their literals are kept in lower case (FindAllIgnoreCase)
MonthAltEng ==
  Alt(<<<<"j","a","n","u","a","r","y">>, <<"j","a","n">>, <<"f","e","b","r","u","a","r","y">>, <<"f","e","b">>, <<"m","a","r","c","h">>, <<"m","a","r">>, <<"a","p","r","i","l">>,
        <<"a","p","r">>, <<"m","a","y">>, <<"j","u","n","e">>, <<"j","u","n">>, <<"j","u","l","y">>, <<"j","u","l">>, <<"a","u","g","u","s","t">>, <<"a","u","g">>,
        <<"s","e","p","t","e","m","b","e","r">>, <<"s","e","p">>, <<"o","c","t","o","b","e","r">>, <<"o","c","t">>, <<"n","o","v","e","m","b","e","r">>, <<"n","o","v">>,
        <<"d","e","c","e","m","b","e","r">>, <<"d","e","c">>>>)

MonthAltInd ==
  Alt(<<<<"j","a","n","u","a","r","i">>, <<"f","e","b","r","u","a","r","i">>, <<"m","a","r","e","t">>, <<"a","p","r","i","l">>, <<"m","e","i">>, <<"j","u","n","i">>, <<"j","u","l","i">>,
        <<"a","g","u","s","t","u","s">>, <<"s","e","p","t","e","m","b","e","r">>, <<"o","k","t","o","b","e","r">>, <<"n","o","v","e","m","b","e","r">>, <<"d","e","s","e","m","b","e","r">>>>)

\* the numeric and year-only patterns, the same for both languages
NumericFormats ==
  << <<Cls(Digits, 1, 2), DateSlash, Cls(Digits, 1, 2), DateSlash, Cls(Digits, 4, 4)>>,
     <<Cls(Digits, 4, 4), DateSlash, Cls(Digits, 1, 2), DateSlash, Cls(Digits, 1, 2)>>,
     <<Wb, Alt(<<<<"2","0">>>>), Cls(Digits, 2, 2), Wb>>,
     <<Wb, Alt(<<<<"1","9">>>>), Cls(Digits, 2, 2), Wb>> >>

MonthFormats(months) ==
  << <<months, DateGap, Cls(Digits, 1, 2), DateGap, Cls(Digits, 4, 4)>>,
     <<Cls(Digits, 1, 2), DateGap, months, DateGap, Cls(Digits, 4, 4)>> >>

\* self.date_formats: per language, the patterns in the order they are tried
date_formats ==
  [eng |-> MonthFormats(MonthAltEng) \o NumericFormats
             \o << <<Alt(<<<<"p","r","e","s","e","n","t">>, <<"c","u","r","r","e","n","t">>, <<"n","o","w">>>>)>> >>,
   ind |-> MonthFormats(MonthAltInd) \o NumericFormats
             \o << <<Alt(<<<<"s","e","k","a","r","a","n","g">>, <<"s","a","a","t"," ","i","n","i">>>>)>> >>]

MonthEntry(name, num) == [name |-> name, num |-> num]

\* self.month_names, in the insertion order of the dict
month_names ==
  [eng |-> <<MonthEntry(<<"j","a","n">>, 1), MonthEntry(<<"j","a","n","u","a","r","y">>, 1),
             MonthEntry(<<"f","e","b">>, 2), MonthEntry(<<"f","e","b","r","u","a","r","y">>, 2),
             MonthEntry(<<"m","a","r">>, 3), MonthEntry(<<"m","a","r","c","h">>, 3),
             MonthEntry(<<"a","p","r">>, 4), MonthEntry(<<"a","p","r","i","l">>, 4),
             MonthEntry(<<"m","a","y">>, 5),
             MonthEntry(<<"j","u","n">>, 6), MonthEntry(<<"j","u","n","e">>, 6),
             MonthEntry(<<"j","u","l">>, 7), MonthEntry(<<"j","u","l","y">>, 7),
             MonthEntry(<<"a","u","g">>, 8), MonthEntry(<<"a","u","g","u","s","t">>, 8),
             MonthEntry(<<"s","e","p">>, 9), MonthEntry(<<"s","e","p","t","e","m","b","e","r">>, 9),
             MonthEntry(<<"o","c","t">>, 10), MonthEntry(<<"o","c","t","o","b","e","r">>, 10),
             MonthEntry(<<"n","o","v">>, 11), MonthEntry(<<"n","o","v","e","m","b","e","r">>, 11),
             MonthEntry(<<"d","e","c">>, 12), MonthEntry(<<"d","e","c","e","m","b","e","r">>, 12)>>,
   ind |-> <<MonthEntry(<<"j","a","n","u","a","r","i">>, 1), MonthEntry(<<"f","e","b","r","u","a","r","i">>, 2),
             MonthEntry(<<"m","a","r","e","t">>, 3), MonthEntry(<<"a","p","r","i","l">>, 4),
             MonthEntry(<<"m","e","i">>, 5), MonthEntry(<<"j","u","n","i">>, 6),
             MonthEntry(<<"j","u","l","i">>, 7), MonthEntry(<<"a","g","u","s","t","u","s">>, 8),
             MonthEntry(<<"s","e","p","t","e","m","b","e","r">>, 9), MonthEntry(<<"o","k","t","o","b","e","r">>, 10),
             MonthEntry(<<"n","o","v","e","m","b","e","r">>, 11), MonthEntry(<<"d","e","s","e","m","b","e","r">>, 12)>>]

present_indicators ==
  [eng |-> <<<<"p","r","e","s","e","n","t">>, <<"c","u","r","r","e","n","t">>, <<"n","o","w">>, <<"o","n","g","o","i","n","g">>>>,
   ind |-> <<<<"s","e","k","a","r","a","n","g">>, <<"s","a","a","t"," ","i","n","i">>, <<"h","i","n","g","g","a"," ","k","i","n","i">>, <<"s","a","m","p","a","i"," ","s","e","k","a","r","a","n","g">>>>]

\* table.get(lang_code, table['eng'])
GetOrEnglish(table, lang_code) ==
  IF lang_code \in DOMAIN table THEN table[lang_code] ELSE table["eng"]

\* \b(19|20)\d{2}\b
YearPattern == <<Wb, Alt(<<<<"1","9">>, <<"2","0">>>>), Cls(Digits, 2, 2), Wb>>

\* \b(\d{1,2})\b
DayPattern == <<Wb, Cls(Digits, 1, 2), Wb>>

\* ------------------------------------------------------------------------
\* DateNormalizer: normalize_date
\* ------------------------------------------------------------------------

\* A faulty variant: the text is compared as written, not lower-cased
is_present_indicator_cased(text, lang_code) ==
  LET indicators == GetOrEnglish(present_indicators, lang_code) IN
  \E i \in DOMAIN indicators : Contains(text, indicators[i])

is_present_indicator(text, lang_code) ==
  LET indicators == GetOrEnglish(present_indicators, lang_code) IN
  LET lowered == Lower(text) IN
  \E i \in DOMAIN indicators : Contains(lowered, indicators[i])

RECURSIVE DigitGroups(_, _, _)
\* the groups of a numeric match: its runs of digits
DigitGroups(t, i, cur) ==
  IF i > Len(t) THEN (IF cur = <<>> THEN <<>> ELSE <<cur>>)
  ELSE IF t[i] \in Digits THEN DigitGroups(t, i + 1, Append(cur, t[i]))
  ELSE (IF cur = <<>> THEN <<>> ELSE <<cur>>) \o DigitGroups(t, i + 1, <<>>)

\* match.groups() of a three-group numeric pattern
Groups(t, m) == DigitGroups(Group0(t, m), 1, <<>>)

\* f"{year}-{month:02d}-{day:02d}"
IsoString(year, month, day) == year \o <<"-">> \o Fmt02(month) \o <<"-">> \o Fmt02(day)

\* the month-name branch: the first month name of the table that occurs
\* decides, provided the text holds a year
MonthNameDate(date_text, lang_code) ==
  LET names == GetOrEnglish(month_names, lang_code) IN
  LET lowered == Lower(date_text) IN
  LET hit == SelectIdx([i \in DOMAIN names |-> Contains(lowered, names[i].name)],
                       1, {TRUE}) IN
  LET day_match == Search(DayPattern, date_text) IN
  LET year_match == Search(YearPattern, date_text) IN
  IF hit # <<>> /\ year_match[1] > 0
  THEN IsoString(Group0(date_text, year_match), names[hit[1]].num,
                 Min(IF day_match[1] > 0 THEN ToInt(Group0(date_text, day_match)) ELSE 1, 28))
  ELSE None

\* (\d{1,2})[/\-](\d{1,2})[/\-](\d{4}): month first for English, day first
\* otherwise
SlashDate(date_text, lang_code) ==
  LET m == Search(NumericFormats[1], date_text) IN
  IF m[1] = 0 THEN None
  ELSE LET g == Groups(date_text, m) IN
       LET month == IF lang_code = "eng" THEN g[1] ELSE g[2] IN
       LET day == IF lang_code = "eng" THEN g[2] ELSE g[1] IN
       IsoString(g[3], Min(ToInt(month), 12), Min(ToInt(day), 28))

\* (\d{4})[/\-](\d{1,2})[/\-](\d{1,2})
YmdDate(date_text) ==
  LET m == Search(NumericFormats[2], date_text) IN
  IF m[1] = 0 THEN None
  ELSE LET g == Groups(date_text, m) IN
       IsoString(g[1], Min(ToInt(g[2]), 12), Min(ToInt(g[3]), 28))

\* A faulty variant: any text that holds a year is taken for a bare year
normalize_date_any_year(date_text, lang_code, today) ==
  LET year_match == Search(YearPattern, date_text) IN
  LET by_month == MonthNameDate(date_text, lang_code) IN
  LET by_slash == SlashDate(date_text, lang_code) IN
  IF is_present_indicator(date_text, lang_code) THEN today
  ELSE IF year_match[1] > 0
  THEN Group0(date_text, year_match) \o <<"-","0","1","-","0","1">>
  ELSE IF by_month # None THEN by_month
  ELSE IF by_slash # None THEN by_slash
  ELSE YmdDate(date_text)

normalize_date(date_text, lang_code, today) ==
  LET year_match == Search(YearPattern, date_text) IN
  LET by_month == MonthNameDate(date_text, lang_code) IN
  LET by_slash == SlashDate(date_text, lang_code) IN
  IF is_present_indicator(date_text, lang_code) THEN today
  ELSE IF year_match[1] > 0 /\ Len(Strip(date_text)) <= 5
  THEN Group0(date_text, year_match) \o <<"-","0","1","-","0","1">>
  ELSE IF by_month # None THEN by_month
  ELSE IF by_slash # None THEN by_slash
  ELSE YmdDate(date_text)

\* ------------------------------------------------------------------------
\* DateNormalizer: extract_dates and extract_date_range
\* ------------------------------------------------------------------------

\* one span; position is match.span(), 0-based, end exclusive
DateSpan(text, m, lang_code, today) ==
  LET date_text == Group0(text, m) IN
  [original |-> date_text,
   normalized |-> normalize_date(date_text, lang_code, today),
   is_present |-> is_present_indicator(date_text, lang_code),
   position |-> <<m[1] - 1, m[2] - 1>>]

\* the spans of one pattern, those without a normalized value left out
PatternSpans(pattern, text, lang_code, today) ==
  LET ms == FindAllIgnoreCase(pattern, text) IN
  LET spans == [i \in DOMAIN ms |-> DateSpan(text, ms[i], lang_code, today)] \o <<>> IN
  LET kept == SelectIdx([i \in DOMAIN spans |-> spans[i].normalized # None], 1, {TRUE}) IN
  [j \in DOMAIN kept |-> spans[kept[j]]]

extract_dates(text, lang_code, today) ==
  IF text = <<>> THEN <<>>
  ELSE LET formats == GetOrEnglish(date_formats, lang_code) IN
       Flatten([i \in DOMAIN formats |-> PatternSpans(formats[i], text, lang_code, today)])

RECURSIVE InsertByStart(_, _)
\* x put after every span that starts at or before it
InsertByStart(sorted, x) ==
  IF sorted = <<>> THEN <<x>>
  ELSE IF sorted[Len(sorted)].position[1] <= x.position[1] THEN Append(sorted, x)
  ELSE Append(InsertByStart(SubSeq(sorted, 1, Len(sorted) - 1), x), sorted[Len(sorted)])

\* A faulty variant: the spans are left in the order the patterns found them
KeepPatternOrder(dates) == dates

RECURSIVE SortByStart(_)
\* dates.sort(key=lambda x: x['position'][0]): stable
SortByStart(dates) ==
  IF dates = <<>> THEN <<>>
  ELSE InsertByStart(SortByStart(SubSeq(dates, 1, Len(dates) - 1)), dates[Len(dates)])

\* text[dates[i]['position'][1]:dates[i+1]['position'][0]]
BetweenText(text, a, b) == SubSeq(text, a.position[2] + 1, b.position[1])

IsSeparator(between_text) ==
  \/ Contains(between_text, <<"-">>)
  \/ Contains(Lower(between_text), <<"t","o">>)
  \/ Contains(Lower(between_text), <<"h","i","n","g","g","a">>)

DateRange(start_date, end_date) == [start_date |-> start_date, end_date |-> end_date]

\* A faulty variant: a single span is always the start date
SingleSpanAsStart(d) == DateRange(d.normalized, None)

SingleSpan(d) ==
  IF d.is_present THEN DateRange(None, d.normalized) ELSE DateRange(d.normalized, None)

RangeOfSorted(text, dates) ==
  LET seps == SelectIdx([i \in 1..(Len(dates) - 1) |->
                           IsSeparator(BetweenText(text, dates[i], dates[i + 1]))], 1, {TRUE}) IN
  IF seps # <<>>
  THEN DateRange(dates[seps[1]].normalized, dates[seps[1] + 1].normalized)
  ELSE DateRange(dates[1].normalized, dates[Len(dates)].normalized)

RangeOf(text, dates) ==
  IF dates = <<>> THEN DateRange(None, None)
  ELSE IF Len(dates) = 1 THEN SingleSpan(dates[1])
  ELSE RangeOfSorted(text, SortByStart(dates))

extract_date_range(text, lang_code, today) ==
  RangeOf(text, extract_dates(text, lang_code, today))

\* ------------------------------------------------------------------------
\* DateNormalizer: the texts of the model and its operations
\* ------------------------------------------------------------------------

\* What a text is made of: date expressions and words ...
DateItems ==
  {<<"2","0","1","9">>,
   <<"P","r","e","s","e","n","t">>,
   <<"J","a","n","u","a","r","y"," ","2","0","1","9">>,
   <<"1","5"," ","J","a","n","u","a","r","y"," ","2","0","1","9">>,
   <<"J","a","n","u","a","r","y"," ","1","5",","," ","1","9","9","8">>,
   <<"2","0","1","9","-","0","3","-","1","5">>}

\* ... and what stands between two of them
DateSeps == {<<" ">>, <<" ","-"," ">>, <<" ","T","O"," ">>, <<" ","h","i","n","g","g","a"," ">>}

\* How many items a text of the model has at most
MaxItems == 2

RECURSIVE TextsOf(_)
\* the texts of exactly n items
TextsOf(n) ==
  IF n = 0 THEN {<<>>}
  ELSE IF n = 1 THEN DateItems
  ELSE { t \o s \o x : t \in TextsOf(n - 1), s \in DateSeps, x \in DateItems }

DateTexts == UNION { TextsOf(n) : n \in 0..MaxItems }

\* The days the model may run on; one of them is also what a bare year
\* normalizes to
Todays == {<<"2","0","2","6","-","1","1","-","0","4">>, <<"2","0","1","9","-","0","1","-","0","1">>}

InitDates ==
  /\ dn_text \in DateTexts
  /\ dn_lang \in SupportedLangs
  /\ dn_today \in Todays
  /\ dn_out = Idle
  /\ EntitiesUnused
  /\ SkillsUnused
  /\ ValidatorUnused
  /\ CliUnused
  /\ ExporterUnused
  /\ RepeatUnused

ExtractDates ==
  /\ dn_out = Idle
  /\ dn_out' = [kind |-> "dates", dates |-> extract_dates(dn_text, dn_lang, dn_today)]
  /\ UNCHANGED <<dn_text, dn_lang, dn_today, ee_vars, sm_vars, vd_vars, cli_vars, ex_vars, rp_vars>>

ExtractDateRange ==
  /\ dn_out = Idle
  /\ LET dates == extract_dates(dn_text, dn_lang, dn_today) IN
     dn_out' = [kind |-> "range", dates |-> dates, range |-> RangeOf(dn_text, dates)]
  /\ UNCHANGED <<dn_text, dn_lang, dn_today, ee_vars, sm_vars, vd_vars, cli_vars, ex_vars, rp_vars>>

NextDates == ExtractDates \/ ExtractDateRange

SpecDates == InitDates /\ [][NextDates]_vars

\* ------------------------------------------------------------------------
\* DateNormalizer on texts that embed one ISO date
\* ------------------------------------------------------------------------

IsoYears == {<<"2","0","1","9">>, <<"1","8","5","0">>}

IsoMonths == 1..12

IsoDays == 1..28

\* YYYY-MM-DD
IsoDates ==
  { y \o <<"-">> \o Fmt02(m) \o <<"-">> \o Fmt02(d) : y \in IsoYears, m \in IsoMonths, d \in IsoDays }

IsoBefore == {<<>>, <<"f","r","o","m"," ">>}

IsoAfter == {<<>>, <<" ","o","n">>}

IsoTexts == { a \o d \o b : a \in IsoBefore, d \in IsoDates, b \in IsoAfter }

InitIsoDates ==
  /\ dn_text \in IsoTexts
  /\ dn_lang \in SupportedLangs
  /\ dn_today \in Todays
  /\ dn_out = Idle
  /\ EntitiesUnused
  /\ SkillsUnused
  /\ ValidatorUnused
  /\ CliUnused
  /\ ExporterUnused
  /\ RepeatUnused

SpecIsoDates == InitIsoDates /\ [][NextDates]_vars

\* ------------------------------------------------------------------------
\* Claims about DateNormalizer
\* ------------------------------------------------------------------------

\* where span i comes when the spans are ordered by their start, spans of
\* equal start in the order they were found
StartRank(dates, i) ==
  1 + Cardinality({ k \in DOMAIN dates :
                      \/ dates[k].position[1] < dates[i].position[1]
                      \/ dates[k].position[1] = dates[i].position[1] /\ k < i })

InTextOrder(dates) ==
  [r \in DOMAIN dates |-> dates[CHOOSE i \in DOMAIN dates : StartRank(dates, i) = r]]

\* the text from the end of span a to the start of span b holds "-", "to" or
\* "hingga" (the words in any case)
Separated(text, a, b) ==
  LET between == SubSeq(text, a.position[2] + 1, b.position[1]) IN
  \/ Contains(between, <<"-">>)
  \/ Contains(Lower(between), <<"t","o">>)
  \/ Contains(Lower(between), <<"h","i","n","g","g","a">>)

SeparatedPairs(text, ord) ==
  { i \in 1..(Len(ord) - 1) : Separated(text, ord[i], ord[i + 1]) }

\* C5: with two or more spans, extract_date_range orders them by start
\* position and returns the first consecutive pair whose in-between text
\* holds '-', 'to' or 'hingga'; with no such pair it returns the first span
\* as start_date and the last one as end_date.
C5_RangeOfSeveral ==
  (dn_out.kind = "range" /\ Len(dn_out.dates) >= 2) =>
    LET ord == InTextOrder(dn_out.dates) IN
    LET pairs == SeparatedPairs(dn_text, ord) IN
    IF pairs # {}
    THEN LET i == CHOOSE i \in pairs : \A j \in pairs : i <= j IN
         dn_out.range = [start_date |-> ord[i].normalized, end_date |-> ord[i + 1].normalized]
    ELSE dn_out.range = [start_date |-> ord[1].normalized,
                         end_date |-> ord[Len(ord)].normalized]

\* C5 happens: the patterns found the spans in another order than the text
\* has them, and the first separated pair is not the first pair
C5_Witness ==
  /\ dn_out.kind = "range"
  /\ Len(dn_out.dates) >= 3
  /\ InTextOrder(dn_out.dates) # dn_out.dates
  /\ LET pairs == SeparatedPairs(dn_text, InTextOrder(dn_out.dates)) IN
     pairs # {} /\ 1 \notin pairs
  /\ dn_out.range.start_date # dn_out.range.end_date

C7_JanuaryToPresent ==
  (dn_out.kind = "range" /\ dn_text = <<"J","a","n","u","a","r","y"," ","2","0","1","9"," ","-"," ","P","r","e","s","e","n","t">> /\ dn_lang = "eng") =>
    dn_out.range = [start_date |-> <<"2","0","1","9","-","0","1","-","0","1">>, end_date |-> dn_today]

\* C7 happens, on a day that is not 2019-01-01
C7_Witness ==
  /\ dn_out.kind = "range"
  /\ dn_text = <<"J","a","n","u","a","r","y"," ","2","0","1","9"," ","-"," ","P","r","e","s","e","n","t">>
  /\ dn_lang = "eng"
  /\ dn_today = <<"2","0","2","6","-","1","1","-","0","4">>
  /\ dn_out.range.end_date = dn_today

\* the ISO date at position p of the text is not the tail of a longer run of
\* digits and date separators, and no digit follows it
StandsAlone(text, p) ==
  /\ p = 1 \/ text[p - 1] \notin Digits \cup {"-", "/"}
  /\ p + 10 > Len(text) \/ text[p + 10] \notin Digits

\* C8: for every text that embeds an ISO date YYYY-MM-DD (month 1..12, day
\* 1..28) and for either language, extract_dates yields that date as a
\* span, and normalizing it gives the same YYYY-MM-DD string back.
C8_IsoIdempotent ==
  dn_out.kind = "dates" =>
    /\ \A p \in 1..(Len(dn_text) - 9) :
         LET iso == SubSeq(dn_text, p, p + 9) IN
         (iso \in IsoDates /\ StandsAlone(dn_text, p)) =>
           \E i \in DOMAIN dn_out.dates :
             /\ dn_out.dates[i].original = iso
             /\ dn_out.dates[i].position = <<p - 1, p + 9>>
             /\ dn_out.dates[i].normalized = iso
    /\ \A i \in DOMAIN dn_out.dates :
         dn_out.dates[i].original \in IsoDates =>
           dn_out.dates[i].normalized = dn_out.dates[i].original

\* C8 happens: an ISO date in the middle of an Indonesian text, next to the
\* span of its year
C8_Witness ==
  /\ dn_out.kind = "dates"
  /\ dn_lang = "ind"
  /\ dn_text = <<"f","r","o","m"," ","2","0","1","9","-","1","2","-","2","8"," ","o","n">>
  /\ \E i \in DOMAIN dn_out.dates :
       /\ dn_out.dates[i].original = <<"2","0","1","9","-","1","2","-","2","8">>
       /\ dn_out.dates[i].normalized = <<"2","0","1","9","-","1","2","-","2","8">>
  /\ \E i \in DOMAIN dn_out.dates : dn_out.dates[i].normalized = <<"2","0","1","9","-","0","1","-","0","1">>

\* ------------------------------------------------------------------------
\* SkillsMatcher: the similarity score of rapidfuzz
\* ------------------------------------------------------------------------

\* ord(c) for the characters the model uses
CodePoint(c) ==
  IF c \in Digits THEN 48 + DigitVal[c]
  ELSE IF c \in UpperSet THEN 64 + (CHOOSE i \in DOMAIN UpperSeq : UpperSeq[i] = c)
  ELSE IF c \in LowerSet THEN 96 + (CHOOSE i \in DOMAIN LowerSeq : LowerSeq[i] = c)
  ELSE IF c = "_" THEN 95
  ELSE 32

RECURSIVE StrLess(_, _)
\* a < b for strings
StrLess(a, b) ==
  IF b = <<>> THEN FALSE
  ELSE IF a = <<>> THEN TRUE
  ELSE IF a[1] = b[1] THEN StrLess(Tail(a), Tail(b))
  ELSE CodePoint(a[1]) < CodePoint(b[1])

RECURSIVE InsertToken(_, _)
InsertToken(sorted, x) ==
  IF sorted = <<>> THEN <<x>>
  ELSE IF StrLess(x, sorted[Len(sorted)])
       THEN Append(InsertToken(SubSeq(sorted, 1, Len(sorted) - 1), x), sorted[Len(sorted)])
       ELSE Append(sorted, x)

RECURSIVE SortTokens(_)
\* sorted(tokens)
SortTokens(tokens) ==
  IF tokens = <<>> THEN <<>>
  ELSE InsertToken(SortTokens(SubSeq(tokens, 1, Len(tokens) - 1)), tokens[Len(tokens)])

Max(a, b) == IF a < b THEN b ELSE a

RECURSIVE LcsRow(_, _, _, _, _)
\* One row of the longest-common-subsequence table: prev is the row of the
\* characters before c, cur the cells of this row found so far
LcsRow(prev, c, b, j, cur) ==
  IF j > Len(b) THEN cur
  ELSE LcsRow(prev, c, b, j + 1,
              Append(cur, IF c = b[j] THEN prev[j] + 1 ELSE Max(prev[j + 1], cur[j])))

RECURSIVE LcsFrom(_, _, _, _)
\* (a row is worked out before the next one is begun)
LcsFrom(a, b, i, prev) ==
  IF i > Len(a) THEN prev[Len(b) + 1]
  ELSE LET row == LcsRow(prev, a[i], b, 1, <<0>>) IN
       IF Len(row) = 0 THEN 0 ELSE LcsFrom(a, b, i + 1, row)

\* the length of the longest common subsequence of a and b
Lcs(a, b) == LcsFrom(a, b, 1, [j \in 1..(Len(b) + 1) |-> 0] \o <<>>)

RECURSIVE Gcd(_, _)
Gcd(a, b) == IF b = 0 THEN a ELSE Gcd(b, a % b)

\* A fraction <<numerator, denominator>> in lowest terms; scores and
\* confidences are kept exact
Frac(n, d) == LET g == Gcd(n, d) IN <<n \div g, d \div g>>

FracGreater(x, y) == x[1] * y[2] > y[1] * x[2]

FracAtLeast(x, n) == x[1] >= n * x[2]

\* fuzz.ratio: the normalized Indel similarity, 0..100
ratio(a, b) ==
  IF Len(a) + Len(b) = 0 THEN <<100, 1>>
  ELSE Frac(200 * Lcs(a, b), Len(a) + Len(b))

\* fuzz.token_sort_ratio: the ratio of the two strings with their
\* whitespace-delimited tokens sorted
token_sort_ratio(s1, s2) ==
  ratio(Join(SortTokens(Split(s1)), <<" ">>), Join(SortTokens(Split(s2)), <<" ">>))

\* utils.default_process: lower case, everything but letters, digits and "_"
\* turned into a blank, blanks at the ends removed
default_process(s) ==
  Strip([i \in DOMAIN s |-> IF s[i] \in WordChars THEN LowerChar(s[i]) ELSE " "] \o <<>>)

\* The rapidfuzz releases differ in what process.extract does: up to 2.x the
\* query and the choices go through default_process before they are scored,
\* from 3.0 on they are scored as they are; 0.x gives (choice, score) pairs,
\* later releases (choice, score, index) triples
Releases == {"0.x", "2.x", "3.x"}

Preprocesses(lib) == lib \in {"0.x", "2.x"}

ReturnsIndex(lib) == lib \in {"2.x", "3.x"}

\* the phrases of 1 to 4 consecutive words, by first word and then length
PhrasesOf(words) ==
  Flatten([i \in DOMAIN words |->
             [j \in 1..Min(4, Len(words) - i + 1) |->
                Join(SubSeq(words, i, i + j - 1), <<" ">>)]])

\* ------------------------------------------------------------------------
\* SkillsMatcher: the dictionaries, thresholds and texts of the model
\* ------------------------------------------------------------------------

SkillPool == {<<"P","y","t","h","o","n">>, <<"D","a","t","a"," ","A","n","a","l","y","s","i","s">>, <<"J","a","v","a">>}

\* a dictionary in the order its set iterates: no skill twice
Dicts ==
  { d \in SeqsUpTo(SkillPool, Cardinality(SkillPool)) :
      \A i, j \in DOMAIN d : i # j => d[i] # d[j] }

\* the Indonesian dictionary is the same in every configuration
IndDict == <<<<"A","n","a","l","i","s","i","s"," ","D","a","t","a">>, <<"P","y","t","h","o","n">>>>

\* config['skills']['fuzzy_match_threshold']
Thresholds == {0, 50, 80, 84, 100}

TextWords == {<<"P","y","t","h","o","n">>, <<"p","y","h","t","o","n">>, <<"d","a","t","a">>, <<"a","n","a","l","y","s","i","s">>, <<"o","f">>}

\* How many words a text has at most
MaxWords == 2

\* a longer text, with words around the skill
ExampleTexts == {<<"I"," ","u","s","e"," ","P","y","t","h","o","n"," ","d","a","i","l","y">>}

SkillTexts ==
  { Join(ws, <<" ">>) : ws \in SeqsUpTo(TextWords, MaxWords) } \cup ExampleTexts

\* ------------------------------------------------------------------------
\* SkillsMatcher: process.extract
\* ------------------------------------------------------------------------

\* what the scorer gives for a query and a choice under a release
scorer(lib, query, choice) ==
  IF Preprocesses(lib)
  THEN token_sort_ratio(default_process(query), default_process(choice))
  ELSE token_sort_ratio(query, choice)

\* The phrases and skills the model can meet, and their scores worked out
\* once
KnownPhrases == UNION { Range(PhrasesOf(Split(Lower(t)))) : t \in SkillTexts }

KnownSkills == SkillPool \cup Range(IndDict)

ScoreTable ==
  [lib \in Releases, q \in KnownPhrases, c \in KnownSkills |-> scorer(lib, q, c)]

Score(lib, query, choice) == ScoreTable[lib, query, choice]

\* A faulty variant: the cutoff is not applied
process_extract_no_cutoff(query, choices, score_cutoff, lib) ==
  LET scores == [i \in DOMAIN choices |-> Score(lib, query, choices[i])] \o <<>> IN
  IF choices = <<>> THEN <<>>
  ELSE LET best == CHOOSE i \in DOMAIN choices : \A j \in DOMAIN choices :
                     /\ ~FracGreater(scores[j], scores[i])
                     /\ (j < i => FracGreater(scores[i], scores[j])) IN
       IF ReturnsIndex(lib) THEN << <<choices[best], scores[best], best - 1>> >>
       ELSE << <<choices[best], scores[best]>> >>

\* process.extract(query, choices, scorer=fuzz.token_sort_ratio,
\* score_cutoff=score_cutoff, limit=1): the best choice whose score is not
\* below the cutoff, of equal scores the one met first
process_extract(query, choices, score_cutoff, lib) ==
  LET scores == [i \in DOMAIN choices |-> Score(lib, query, choices[i])] \o <<>> IN
  LET ok == { i \in DOMAIN choices : FracAtLeast(scores[i], score_cutoff) } IN
  IF ok = {} THEN <<>>
  ELSE LET best == CHOOSE i \in ok : \A j \in ok :
                     /\ ~FracGreater(scores[j], scores[i])
                     /\ (j < i => FracGreater(scores[i], scores[j])) IN
       IF ReturnsIndex(lib) THEN << <<choices[best], scores[best], best - 1>> >>
       ELSE << <<choices[best], scores[best]>> >>

\* ------------------------------------------------------------------------
\* SkillsMatcher.extract_skills
\* ------------------------------------------------------------------------

Raised(exc) == [kind |-> "raised", exc |-> exc]

Returned_list(matches) == [kind |-> "list", matches |-> matches]

SkillMatch(skill, confidence, match_type) ==
  [skill |-> skill, confidence |-> confidence, match_type |-> match_type]

\* the exact phase: the skills whose lower-cased form occurs in the text
ExactMatches(text_lower, skills_set) ==
  LET hit == SelectIdx([i \in DOMAIN skills_set |->
                          Contains(text_lower, Lower(skills_set[i]))], 1, {TRUE}) IN
  [j \in DOMAIN hit |-> SkillMatch(skills_set[hit[j]], <<1, 1>>, "exact")]

\* A faulty variant: every match is kept
KeepAll(all_matches) == all_matches

RECURSIVE Dedupe(_, _)
\* unique_skills: one entry per skill, at the place of its first match, the
\* entry replaced only by one of higher confidence
Dedupe(all_matches, unique) ==
  IF all_matches = <<>> THEN unique
  ELSE LET match == all_matches[1] IN
       LET at == SelectIdx([i \in DOMAIN unique |-> unique[i].skill = match.skill], 1, {TRUE}) IN
       Dedupe(Tail(all_matches),
              IF at = <<>> THEN Append(unique, match)
              ELSE IF FracGreater(match.confidence, unique[at[1]].confidence)
                   THEN [unique EXCEPT ![at[1]] = match]
                   ELSE unique)

\* list(unique_skills.values())
UniqueSkills(all_matches) == Dedupe(all_matches, <<>>)

\* the fuzzy phase and the merge, for a text and a non-empty skill set
MatchSkills(text, skills_set, fuzzy_threshold, lib) ==
  LET text_lower == Lower(text) IN
  LET exact_matches == ExactMatches(text_lower, skills_set) IN
  LET phrases == PhrasesOf(Split(text_lower)) IN
  LET found == [i \in DOMAIN phrases |->
                  IF Len(phrases[i]) < 3 THEN <<>>
                  ELSE process_extract(phrases[i], skills_set, fuzzy_threshold, lib)] \o <<>> IN
  IF \E i \in DOMAIN found : found[i] # <<>> /\ Len(found[i][1]) # 2
  THEN Raised("ValueError")
  ELSE LET fuzzy_matches ==
             Flatten([i \in DOMAIN found |->
               IF found[i] = <<>> THEN <<>>
               ELSE IF \E k \in DOMAIN exact_matches : exact_matches[k].skill = found[i][1][1]
               THEN <<>>
               ELSE <<SkillMatch(found[i][1][1],
                                 Frac(found[i][1][2][1], 100 * found[i][1][2][2]), "fuzzy")>>]) IN
       Returned_list(UniqueSkills(exact_matches \o fuzzy_matches))

SkillsMatcher_extract_skills(text, lang_code, skills_dict, fuzzy_threshold, lib) ==
  IF text = <<>> \/ lang_code \notin {"eng", "ind"} THEN Returned_list(<<>>)
  ELSE LET skills_set == GetOrEnglish(skills_dict, lang_code) IN
       IF skills_set = <<>> THEN Returned_list(<<>>)
       ELSE MatchSkills(text, skills_set, fuzzy_threshold, lib)

\* ------------------------------------------------------------------------
\* SkillsMatcher: its construction and its operation
\* ------------------------------------------------------------------------

InitSkills ==
  /\ sm_skills_dict \in { [eng |-> d, ind |-> IndDict] : d \in Dicts }
  /\ sm_fuzzy_threshold \in Thresholds
  /\ sm_lib \in Releases
  /\ sm_text = <<>>
  /\ sm_lang = "eng"
  /\ sm_out = Idle
  /\ sm_files = [eng |-> Absent, ind |-> Absent]
  /\ sm_pc = "ready"
  /\ EntitiesUnused
  /\ DatesUnused
  /\ ValidatorUnused
  /\ CliUnused
  /\ ExporterUnused
  /\ RepeatUnused

ExtractSkills ==
  /\ sm_out = Idle
  /\ \E text \in SkillTexts, lang_code \in LangTags :
       /\ sm_text' = text
       /\ sm_lang' = lang_code
       /\ sm_out' = SkillsMatcher_extract_skills(text, lang_code, sm_skills_dict,
                                                 sm_fuzzy_threshold, sm_lib)
  /\ UNCHANGED <<sm_skills_dict, sm_fuzzy_threshold, sm_lib, sm_files, sm_pc, ee_vars, dn_vars, vd_vars,
               cli_vars, ex_vars, rp_vars>>

NextSkills == ExtractSkills

SpecSkills == InitSkills /\ [][NextSkills]_vars

\* ------------------------------------------------------------------------
\* Claims about SkillsMatcher
\* ------------------------------------------------------------------------

ListReturned == sm_out.kind = "list"

\* the skill set the call reads
SkillsRead == Range(GetOrEnglish(sm_skills_dict, sm_lang))

\* the fuzzy candidates of the text: its n-grams of 1 to 4 words that have at
\* least 3 characters
FuzzyCandidates(text) ==
  LET words == Split(Lower(text)) IN
  LET grams == UNION { { Join(SubSeq(words, i, i + n - 1), <<" ">>) :
                           n \in 1..Min(4, Len(words) - i + 1) } : i \in DOMAIN words } IN
  { p \in grams : Len(p) >= 3 }

\* C9: for every text, dictionary and threshold T in 0..100, every match
\* returned by extract_skills with match_type 'fuzzy' has
\* confidence * 100 >= T.
C9_FuzzyAboveThreshold ==
  ListReturned =>
    \A i \in DOMAIN sm_out.matches :
      sm_out.matches[i].match_type = "fuzzy" =>
        sm_out.matches[i].confidence[1] * 100
          >= sm_fuzzy_threshold * sm_out.matches[i].confidence[2]

\* C9 happens: under a threshold above 0 a fuzzy match of less than full
\* confidence is returned, and a candidate of the text is left out
C9_Witness ==
  /\ ListReturned
  /\ sm_fuzzy_threshold = 80
  /\ \E i \in DOMAIN sm_out.matches :
       /\ sm_out.matches[i].match_type = "fuzzy"
       /\ sm_out.matches[i].confidence = <<5, 6>>
  /\ \E p \in FuzzyCandidates(sm_text) : \A s \in SkillsRead :
       ~FracAtLeast(Score(sm_lib, p, s), sm_fuzzy_threshold)

MatchesExactly(skill) == Contains(Lower(sm_text), Lower(skill))

MatchesFuzzily(skill) ==
  \E p \in FuzzyCandidates(sm_text) :
    FracAtLeast(Score(sm_lib, p, skill), sm_fuzzy_threshold)

C11_PythonDaily ==
  (/\ sm_out # Idle
   /\ sm_text = <<"I"," ","u","s","e"," ","P","y","t","h","o","n"," ","d","a","i","l","y">>
   /\ sm_lang = "eng"
   /\ sm_skills_dict.eng = <<<<"P","y","t","h","o","n">>>>) =>
    sm_out = Returned_list(<<SkillMatch(<<"P","y","t","h","o","n">>, <<1, 1>>, "exact")>>)

\* ------------------------------------------------------------------------
\* Validator (modules/validation.py).  Its dicts are objects on a heap, a
\* sequence of dicts addressed by their index, so that what a call writes
\* into a copy and what it writes into the caller's object differ.  A dict
\* is a function from its keys; a nested dict is held by its address, a
\* list of dicts as the sequence of their addresses.  Scores are exact
\* fractions.
\* ------------------------------------------------------------------------

\* r = x, then the statements F that read r: x is computed once
Bind(x, F(_)) == CHOOSE y \in { F(v) : v \in {x} } : TRUE

\* a new object on the heap: the heap after, and where the object is
Alloc(h, obj) == [h |-> Append(h, obj), at |-> Len(h) + 1]

\* A faulty variant: no copy is made, the caller's object is used
DictAlias(h, a) == [h |-> h, at |-> a]

\* dict.copy(): a new dict with the same keys and values (shallow)
DictCopy(h, a) == Alloc(h, h[a])

\* d[key] = val on the dict at address a
SetItem(h, a, key, val) == [h EXCEPT ![a] = (key :> val) @@ @]

\* d.get(key, default)
DictGet(d, key, default) == IF key \in DOMAIN d THEN d[key] ELSE default

\* 'key' in d and d[key], for a key that holds a string or None
HasText(d, key) == key \in DOMAIN d /\ ~Falsy(d[key])

\* 'key' in d and d[key], for a key that holds a list
HasItems(d, key) == key \in DOMAIN d /\ d[key] # None /\ d[key] # <<>>

\* ^[a-zA-Z0-9._%+-]+@[a-zA-Z0-9.-]+\.[a-zA-Z]{2,}$
Validator_email_regex ==
  <<AtLeast(EmailLocal, 1), Lit("@"), AtLeast(EmailDomain, 1), Lit("."),
    AtLeast(Letters, 2), End>>

\* \(?\d{3,4}\)?[-.\s]?\d{3,4}[-.\s]?\d{3,4}$
ValidatorPhoneBody ==
  <<Cls({"("}, 0, 1), Cls(Digits, 3, 4), Cls({")"}, 0, 1), Cls(PhoneSep, 0, 1),
    Cls(Digits, 3, 4), Cls(PhoneSep, 0, 1), Cls(Digits, 3, 4), End>>

\* ^(?:\+\d{1,3}[-.\s]?)?\(?\d{3,4}\)?[-.\s]?\d{3,4}[-.\s]?\d{3,4}$: with
\* the optional group first, then without it
Validator_phone_regex ==
  << <<Lit("+"), Cls(Digits, 1, 3), Cls(PhoneSep, 0, 1)>> \o ValidatorPhoneBody,
     ValidatorPhoneBody >>

\* re.sub(r'[\s\-\(\)\.]', '', phone)
CleanPhone(phone) == SelectSeq(phone, LAMBDA c : c \notin {" ", "-", "(", ")", "."})

NameValid(pi) ==
  HasText(pi, "name") /\ Len(Split(pi.name)) >= 1 /\ Len(pi.name) >= 3

EmailValid(pi) ==
  HasText(pi, "email") /\ MatchFrom(Validator_email_regex, 1, pi.email, 1) > 0

PhoneValid(pi) ==
  /\ HasText(pi, "phone")
  /\ \/ MatchFrom(Validator_phone_regex[1], 1, pi.phone, 1) > 0
     \/ MatchFrom(Validator_phone_regex[2], 1, pi.phone, 1) > 0
  /\ Len(CleanPhone(pi.phone)) >= 7

AddressValid(pi) == HasText(pi, "address") /\ Len(pi.address) >= 10

\* the flags are read from the argument and written into the copy
validate_personal_info(h, a) ==
  Bind(DictCopy(h, a), LAMBDA c :
    [h |-> SetItem(SetItem(SetItem(SetItem(c.h,
                     c.at, "name_valid", NameValid(h[a])),
                     c.at, "email_valid", EmailValid(h[a])),
                     c.at, "phone_valid", PhoneValid(h[a])),
                     c.at, "address_valid", AddressValid(h[a])),
     at |-> c.at])

validate_education(h, a) ==
  Bind(DictCopy(h, a), LAMBDA c :
    Bind(SetItem(SetItem(SetItem(c.h,
           c.at, "institution_valid",
             HasText(h[a], "institution") /\ Len(h[a].institution) >= 3),
           c.at, "degree_valid", HasText(h[a], "degree")),
           c.at, "dates_valid", HasItems(h[a], "dates")), LAMBDA validated :
      [h |-> SetItem(validated, c.at, "valid",
                     DictGet(validated[c.at], "institution_valid", FALSE)),
       at |-> c.at]))

validate_work_experience(h, a) ==
  Bind(DictCopy(h, a), LAMBDA c :
    Bind(SetItem(SetItem(SetItem(SetItem(c.h,
           c.at, "company_valid",
             HasText(h[a], "company") /\ Len(h[a].company) >= 2),
           c.at, "title_valid", HasText(h[a], "title")),
           c.at, "dates_valid", HasItems(h[a], "dates")),
           c.at, "responsibilities_valid", HasItems(h[a], "responsibilities")),
         LAMBDA validated :
      [h |-> SetItem(validated, c.at, "valid",
                     DictGet(validated[c.at], "company_valid", FALSE)),
       at |-> c.at]))

RECURSIVE ValidateEach(_, _, _, _)
\* [validate(x) for x in entries]: the heap after, and the new list;
\* kind tells which of the two validators runs
ValidateEach(h, entries, kind, done) ==
  IF entries = <<>> THEN [h |-> h, list |-> done]
  ELSE Bind(IF kind = "education" THEN validate_education(h, entries[1])
            ELSE validate_work_experience(h, entries[1]), LAMBDA r :
         ValidateEach(r.h, Tail(entries), kind, Append(done, r.at)))

\* a new list of the skills of at least 2 characters
validate_skills(skills) == SelectSeq(skills, LAMBDA skill : Len(skill) >= 2)

FracAdd(x, y) == Frac(x[1] * y[2] + y[1] * x[2], x[2] * y[2])

FracMul(x, y) == Frac(x[1] * y[1], x[2] * y[2])

FracLeq(x, y) == x[1] * y[2] <= y[1] * x[2]

\* True counts as 1 in sum([...])
Flag(d, key) == IF DictGet(d, key, FALSE) THEN 1 ELSE 0

\* A faulty variant: valid_fields / 3 without the cap min(1.0, ...)
personal_info_score_uncapped(personal_info) ==
  IF DOMAIN personal_info = {} THEN <<0, 1>>
  ELSE LET valid_fields == Flag(personal_info, "name_valid") + Flag(personal_info, "email_valid")
                             + Flag(personal_info, "phone_valid")
                             + Flag(personal_info, "address_valid") IN
       IF DictGet(personal_info, "name_valid", FALSE) /\ DictGet(personal_info, "email_valid", FALSE)
       THEN Frac(valid_fields, 3)
       ELSE Frac(valid_fields, 4)

\* A faulty variant: with name and email valid, only those two are counted
personal_info_score_pair_only(personal_info) ==
  IF DOMAIN personal_info = {} THEN <<0, 1>>
  ELSE LET valid_fields == Flag(personal_info, "name_valid") + Flag(personal_info, "email_valid")
                             + Flag(personal_info, "phone_valid")
                             + Flag(personal_info, "address_valid") IN
       IF DictGet(personal_info, "name_valid", FALSE) /\ DictGet(personal_info, "email_valid", FALSE)
       THEN Frac(2, 3)
       ELSE Frac(valid_fields, 4)

\* A faulty variant: valid_fields / 4 whatever the flags
personal_info_score_quarters(personal_info) ==
  IF DOMAIN personal_info = {} THEN <<0, 1>>
  ELSE Frac(Flag(personal_info, "name_valid") + Flag(personal_info, "email_valid")
              + Flag(personal_info, "phone_valid") + Flag(personal_info, "address_valid"), 4)

compute_personal_info_score(personal_info) ==
  IF DOMAIN personal_info = {} THEN <<0, 1>>
  ELSE LET valid_fields == Flag(personal_info, "name_valid") + Flag(personal_info, "email_valid")
                             + Flag(personal_info, "phone_valid")
                             + Flag(personal_info, "address_valid") IN
       IF DictGet(personal_info, "name_valid", FALSE) /\ DictGet(personal_info, "email_valid", FALSE)
       THEN (IF FracLeq(<<1, 1>>, Frac(valid_fields, 3)) THEN <<1, 1>>
             ELSE Frac(valid_fields, 3))
       ELSE Frac(valid_fields, 4)

\* 1.0 with at least one entry whose 'valid' is true; the entries are read
\* from the heap
compute_education_score(h, education) ==
  IF \E i \in DOMAIN education : DictGet(h[education[i]], "valid", FALSE)
  THEN <<1, 1>> ELSE <<0, 1>>

compute_experience_score(h, experience) ==
  IF \E i \in DOMAIN experience : DictGet(h[experience[i]], "valid", FALSE)
  THEN <<1, 1>> ELSE <<0, 1>>

compute_skills_score(skills) ==
  IF Len(skills) >= 5 THEN <<1, 1>>
  ELSE IF Len(skills) >= 3 THEN <<4, 5>>
  ELSE IF Len(skills) >= 1 THEN <<1, 2>>
  ELSE <<0, 1>>

\* data.get('personal_info', {}), the dict itself
PersonalInfoOf(h, data) ==
  IF "personal_info" \in DOMAIN data THEN h[data.personal_info] ELSE <<>>

\* A faulty variant: the plain average of the four scores
overall_score_unweighted(h, data) ==
  FracMul(FracAdd(FracAdd(compute_personal_info_score(PersonalInfoOf(h, data)),
                          compute_education_score(h, DictGet(data, "education", <<>>))),
                  FracAdd(compute_experience_score(h, DictGet(data, "work_experience", <<>>)),
                          compute_skills_score(DictGet(data, "skills", <<>>)))),
          <<1, 4>>)

compute_overall_validation_score(h, data) ==
  LET personal_score == compute_personal_info_score(PersonalInfoOf(h, data)) IN
  LET education_score == compute_education_score(h, DictGet(data, "education", <<>>)) IN
  LET experience_score ==
        compute_experience_score(h, DictGet(data, "work_experience", <<>>)) IN
  LET skills_score == compute_skills_score(DictGet(data, "skills", <<>>)) IN
  FracAdd(FracAdd(FracAdd(FracMul(personal_score, <<2, 5>>), FracMul(education_score, <<1, 5>>)),
                  FracMul(experience_score, <<1, 5>>)),
          FracMul(skills_score, <<1, 5>>))

\* Validator.validate_extracted_data on the dict at address a: the heap
\* after the call and the address of the dict it returns
validate_extracted_data(h, a) ==
  Bind(DictCopy(h, a), LAMBDA v :
  Bind(IF "personal_info" \in DOMAIN h[a]
       THEN Bind(validate_personal_info(v.h, h[a].personal_info), LAMBDA r :
              SetItem(r.h, v.at, "personal_info", r.at))
       ELSE v.h, LAMBDA p :
  Bind(IF "education" \in DOMAIN h[a]
       THEN Bind(ValidateEach(p, h[a].education, "education", <<>>), LAMBDA r :
              SetItem(r.h, v.at, "education", r.list))
       ELSE p, LAMBDA e :
  Bind(IF "work_experience" \in DOMAIN h[a]
       THEN Bind(ValidateEach(e, h[a].work_experience, "work_experience", <<>>), LAMBDA r :
              SetItem(r.h, v.at, "work_experience", r.list))
       ELSE e, LAMBDA w :
  Bind(IF "skills" \in DOMAIN h[a]
       THEN SetItem(w, v.at, "skills", validate_skills(h[a].skills))
       ELSE w, LAMBDA s :
    [h |-> SetItem(s, v.at, "validation",
                   [overall_score |-> compute_overall_validation_score(s, s[v.at]),
                    personal_info_score |->
                      compute_personal_info_score(PersonalInfoOf(s, s[v.at])),
                    education_score |->
                      compute_education_score(s, DictGet(s[v.at], "education", <<>>)),
                    experience_score |->
                      compute_experience_score(s, DictGet(s[v.at], "work_experience", <<>>)),
                    skills_score |->
                      compute_skills_score(DictGet(s[v.at], "skills", <<>>))]),
     at |-> v.at])))))

\* ------------------------------------------------------------------------
\* Validator: the records of the model and its operation
\* ------------------------------------------------------------------------

\* For each field of personal_info: no value, a value that fails the
\* validation, a value that passes
NameValues == {None, <<"A","l">>, <<"A","l","i","c","e">>}

EmailValues == {None, <<"a","@","b",".","c">>, <<"a","@","b",".","i","o">>}

PhoneValues == {None, <<"1","2","3","4","5">>, <<"0","8","1","2","-","3","4","5","6","-","7","8","9">>}

AddressValues == {None, <<"J","a","k","a","r","t","a">>, <<"J","a","k","a","r","t","a",","," ","1","2","3","4","5">>}

\* a key the record may lack altogether
Missing == [present |-> FALSE]

Present(v) == [present |-> TRUE, val |-> v]

\* personal_info: missing, the empty dict, or a dict with the four fields
PersonalInfos ==
  {Missing, Present(<<>>)}
    \cup { Present([name |-> n, email |-> e, phone |-> p, address |-> a]) :
             n \in NameValues, e \in EmailValues, p \in PhoneValues, a \in AddressValues }

EduValid ==
  [institution |-> <<"M","I","T">>, degree |-> None, field |-> None, dates |-> <<<<"2","0","1","9">>>>]

\* (an entry without dates lacks the key: 'dates' in education and
\* education['dates'] reads a missing key and None alike)
EduShort == [institution |-> <<"A","B">>, degree |-> <<"B","S","c">>, field |-> None]

EduNone == [institution |-> None, degree |-> None]

EducationLists ==
  {Missing, Present(<<>>), Present(<<EduValid>>), Present(<<EduShort>>),
   Present(<<EduNone, EduValid>>), Present(<<EduShort, EduNone>>)}

ExpValid ==
  [company |-> <<"A","c","m","e">>, title |-> None, dates |-> <<<<"2","0","2","0">>, <<"2","0","2","2">>>>,
   responsibilities |-> <<>>]

ExpShort == [company |-> <<"X">>, title |-> <<"C","T","O">>, responsibilities |-> <<<<"o","p","s">>>>]

ExperienceLists ==
  {Missing, Present(<<>>), Present(<<ExpValid>>), Present(<<ExpShort>>),
   Present(<<ExpShort, ExpValid>>)}

\* skills lists of every length up to 7, two of the names too short to be kept
SkillNames == <<<<"S","Q","L">>, <<"C">>, <<"J","a","v","a">>, <<"G","o">>, <<"R">>, <<"P","y","t","h","o","n">>, <<"H","T","M","L">>>>

SkillLists == {Missing} \cup { Present(SubSeq(SkillNames, 1, n)) : n \in 0..Len(SkillNames) }

\* where the record handed to the Validator is on the heap
DataAt == 1

\* The heap the caller has built: the record at DataAt, then personal_info,
\* then the education and the work experience entries
RecordHeap(pi, edu, exp, skills) ==
  LET piObjs == IF pi.present THEN <<pi.val>> ELSE <<>> IN
  LET eduObjs == IF edu.present THEN edu.val ELSE <<>> IN
  LET expObjs == IF exp.present THEN exp.val ELSE <<>> IN
  LET eduFrom == DataAt + Len(piObjs) IN
  LET expFrom == eduFrom + Len(eduObjs) IN
  LET data ==
        (IF pi.present THEN "personal_info" :> (DataAt + 1) ELSE <<>>)
        @@ (IF edu.present THEN "education" :> ([i \in DOMAIN eduObjs |-> eduFrom + i] \o <<>>) ELSE <<>>)
        @@ (IF exp.present THEN "work_experience" :> ([i \in DOMAIN expObjs |-> expFrom + i] \o <<>>)
            ELSE <<>>)
        @@ (IF skills.present THEN "skills" :> skills.val ELSE <<>>) IN
  <<data>> \o piObjs \o eduObjs \o expObjs

InitValidator ==
  /\ vd_before \in { RecordHeap(pi, edu, exp, skills) :
                       pi \in PersonalInfos, edu \in EducationLists,
                       exp \in ExperienceLists, skills \in SkillLists }
  /\ vd_heap = vd_before
  /\ vd_out = Idle
  /\ EntitiesUnused
  /\ DatesUnused
  /\ SkillsUnused
  /\ CliUnused
  /\ ExporterUnused
  /\ RepeatUnused

\* validate_extracted_data(data) for the record the caller holds
ValidateData ==
  /\ vd_out = Idle
  /\ vd_heap # <<>>
  /\ \E r \in {validate_extracted_data(vd_heap, DataAt)} :
       /\ vd_heap' = r.h
       /\ vd_out' = [kind |-> "validated", at |-> r.at]
  /\ UNCHANGED <<vd_before, ee_vars, dn_vars, sm_vars, cli_vars, ex_vars, rp_vars>>

NextValidator == ValidateData

SpecValidator == InitValidator /\ [][NextValidator]_vars

\* ------------------------------------------------------------------------
\* The two components that score a record, side by side
\* ------------------------------------------------------------------------

InitScores == InitEntities \/ InitValidator

NextScores == ExtractEntities \/ ValidateData

SpecScores == InitScores /\ [][NextScores]_vars

\* ------------------------------------------------------------------------
\* Claims about the Validator and the scores
\* ------------------------------------------------------------------------

Validated == vd_out.kind = "validated"

\* the dict validate_extracted_data returned
ValidatedData == vd_heap[vd_out.at]

\* its 'validation' block
Validation == ValidatedData.validation

\* C12: for every record produced by extract_entities,
\* 0.0 <= confidence_scores.overall <= 1.0, and for every output of
\* validate_extracted_data, 0.0 <= validation.overall_score <= 1.0.
C12_ScoresBounded ==
  /\ Returned =>
       /\ 0 <= ee_out.rec.confidence_scores.overall
       /\ ee_out.rec.confidence_scores.overall <= 100
  /\ Validated =>
       /\ FracLeq(<<0, 1>>, Validation.overall_score)
       /\ FracLeq(Validation.overall_score, <<1, 1>>)

\* C12 happens: a validated record reaches the full score 1.0
C12_Witness ==
  /\ Validated
  /\ Validation.overall_score = <<1, 1>>
  /\ Validation.personal_info_score = <<1, 1>>
  /\ Validation.skills_score = <<1, 1>>

\* the record the caller handed over, as it was before the call
InputData == vd_before[DataAt]

HasPersonalInfo == "personal_info" \in DOMAIN InputData

\* its personal_info dict, as it was before the call
InputPersonalInfo == vd_before[InputData.personal_info]

EmailAbsent(pi) == "email" \notin DOMAIN pi \/ pi.email = None

\* the same PersonalInfo with the email set
WithEmail(pi, email) ==
  [k \in DOMAIN pi \cup {"email"} |-> IF k = "email" THEN email ELSE pi[k]]

\* personal_info_score of a PersonalInfo: validate_personal_info, then
\* compute_personal_info_score on what it returns
ScoreOfPersonalInfo(pi) ==
  Bind(validate_personal_info(<<pi>>, 1), LAMBDA r :
    compute_personal_info_score(r.h[r.at]))

\* C13: turning the email of a PersonalInfo from absent to a valid email,
\* all other fields unchanged, never decreases personal_info_score, from the
\* empty PersonalInfo and from every combination of name, phone and address.
C13_EmailNeverLowers ==
  (Validated /\ HasPersonalInfo /\ EmailAbsent(InputPersonalInfo)) =>
    \A email \in {<<"a","@","b",".","i","o">>, <<"x",".","y","@","m","a","i","l",".","e","x","a","m","p","l","e",".","o","r","g">>} :
      /\ EmailValid([email |-> email])
      /\ FracLeq(Validation.personal_info_score,
                 ScoreOfPersonalInfo(WithEmail(InputPersonalInfo, email)))

\* C13 happens: name, phone and address valid and no email score 3/4, and
\* the email lifts the score to 1
C13_Witness ==
  /\ Validated /\ HasPersonalInfo /\ EmailAbsent(InputPersonalInfo)
  /\ Flag(vd_heap[ValidatedData.personal_info], "name_valid") = 1
  /\ Flag(vd_heap[ValidatedData.personal_info], "phone_valid") = 1
  /\ Flag(vd_heap[ValidatedData.personal_info], "address_valid") = 1
  /\ Validation.personal_info_score = <<3, 4>>
  /\ ScoreOfPersonalInfo(WithEmail(InputPersonalInfo, <<"a","@","b",".","i","o">>)) = <<1, 1>>

\* C13 from the empty PersonalInfo: 0 before, 1/4 with the email
C13_FromEmpty ==
  /\ Validated /\ HasPersonalInfo /\ InputPersonalInfo = <<>>
  /\ Validation.personal_info_score = <<0, 1>>
  /\ ScoreOfPersonalInfo(WithEmail(InputPersonalInfo, <<"a","@","b",".","i","o">>)) = <<1, 4>>

\* C14: validate_extracted_data is non-destructive: after the call the
\* input record and every object nested in it (the personal_info dict, each
\* education and work_experience entry, the skills list) are as they were;
\* flags, the filtered skills and 'validation' are on copies.
C14_InputUntouched ==
  Validated =>
    /\ \A a \in DOMAIN vd_before : vd_heap[a] = vd_before[a]
    /\ vd_out.at \notin DOMAIN vd_before
    /\ "validation" \notin DOMAIN vd_heap[DataAt]
    /\ HasPersonalInfo => ValidatedData.personal_info \notin DOMAIN vd_before
    /\ "education" \in DOMAIN InputData =>
         \A i \in DOMAIN ValidatedData.education :
           ValidatedData.education[i] \notin DOMAIN vd_before
    /\ "work_experience" \in DOMAIN InputData =>
         \A i \in DOMAIN ValidatedData.work_experience :
           ValidatedData.work_experience[i] \notin DOMAIN vd_before

\* C14 happens: a record with personal_info, two education entries, two
\* work experience entries and skills of which some are filtered out has
\* been validated, and the copy carries the additions
C14_Witness ==
  /\ Validated
  /\ HasPersonalInfo
  /\ "name_valid" \in DOMAIN vd_heap[ValidatedData.personal_info]
  /\ "education" \in DOMAIN InputData /\ Len(InputData.education) = 2
  /\ "valid" \in DOMAIN vd_heap[ValidatedData.education[2]]
  /\ "work_experience" \in DOMAIN InputData /\ Len(InputData.work_experience) = 2
  /\ "valid" \in DOMAIN vd_heap[ValidatedData.work_experience[1]]
  /\ "skills" \in DOMAIN InputData
  /\ Len(ValidatedData.skills) < Len(InputData.skills)
  /\ "validation" \in DOMAIN ValidatedData

\* the personal_info dict of the validated record, {} without one
ValidatedPersonalInfo == PersonalInfoOf(vd_heap, ValidatedData)

\* the number of true flags among the four
TrueFlags(pi) ==
  Cardinality({ f \in {"name_valid", "email_valid", "phone_valid", "address_valid"} :
                  DictGet(pi, f, FALSE) })

FracEq(x, y) == x[1] * y[2] = y[1] * x[2]

\* C15: with n the number of true flags among name_valid, email_valid,
\* phone_valid and address_valid, the personal_info score is min(1, n/3)
\* when name_valid and email_valid are both true, and n/4 otherwise.
C15_PersonalInfoScore ==
  Validated =>
    LET n == TrueFlags(ValidatedPersonalInfo) IN
    IF DictGet(ValidatedPersonalInfo, "name_valid", FALSE)
         /\ DictGet(ValidatedPersonalInfo, "email_valid", FALSE)
    THEN FracEq(Validation.personal_info_score, IF n >= 3 THEN <<1, 1>> ELSE <<n, 3>>)
    ELSE FracEq(Validation.personal_info_score, <<n, 4>>)

\* C15 happens: name and email valid, phone and address not: 2/3
C15_Witness ==
  /\ Validated /\ HasPersonalInfo
  /\ DictGet(ValidatedPersonalInfo, "name_valid", FALSE)
  /\ DictGet(ValidatedPersonalInfo, "email_valid", FALSE)
  /\ TrueFlags(ValidatedPersonalInfo) = 2
  /\ FracEq(Validation.personal_info_score, <<2, 3>>)

\* the cap: all four valid, 4/3 cut to 1
C15_Capped ==
  /\ Validated
  /\ TrueFlags(ValidatedPersonalInfo) = 4
  /\ Validation.personal_info_score = <<1, 1>>

\* the other branch: phone and address valid only, 2/4
C15_Quarters ==
  /\ Validated
  /\ ~DictGet(ValidatedPersonalInfo, "name_valid", FALSE)
  /\ TrueFlags(ValidatedPersonalInfo) = 2
  /\ FracEq(Validation.personal_info_score, <<1, 2>>)

\* 0.4 p + 0.2 e + 0.2 x + 0.2 s
WeightedSum(p, e, x, s) ==
  FracAdd(FracAdd(FracAdd(FracMul(p, <<4, 10>>), FracMul(e, <<2, 10>>)),
                  FracMul(x, <<2, 10>>)),
          FracMul(s, <<2, 10>>))

\* C16: in every output of validate_extracted_data, validation.overall_score
\* is 0.4 x personal_info_score + 0.2 x education_score + 0.2 x
\* experience_score + 0.2 x skills_score, the four scores being those of the
\* same validation block, computed on the validated copy.
C16_OverallIsWeightedSum ==
  Validated =>
    /\ FracEq(Validation.overall_score,
              WeightedSum(Validation.personal_info_score, Validation.education_score,
                          Validation.experience_score, Validation.skills_score))
    /\ Validation.personal_info_score = compute_personal_info_score(ValidatedPersonalInfo)
    /\ Validation.education_score
         = compute_education_score(vd_heap, DictGet(ValidatedData, "education", <<>>))
    /\ Validation.experience_score
         = compute_experience_score(vd_heap, DictGet(ValidatedData, "work_experience", <<>>))
    /\ Validation.skills_score = compute_skills_score(DictGet(ValidatedData, "skills", <<>>))

\* C16 happens: scores 2/3, 1, 0 and 4/5 give 47/75
C16_Witness ==
  /\ Validated
  /\ FracEq(Validation.personal_info_score, <<2, 3>>)
  /\ Validation.education_score = <<1, 1>>
  /\ Validation.experience_score = <<0, 1>>
  /\ FracEq(Validation.skills_score, <<4, 5>>)
  /\ FracEq(Validation.overall_score, <<47, 75>>)

\* the scores are those of the copy: the raw record has no flags and would
\* score 0 for personal_info and education
C16_RawScoresDiffer ==
  /\ Validated /\ HasPersonalInfo
  /\ Validation.personal_info_score = <<1, 1>>
  /\ compute_personal_info_score(InputPersonalInfo) = <<0, 1>>
  /\ Validation.education_score = <<1, 1>>
  /\ compute_education_score(vd_before, DictGet(InputData, "education", <<>>)) = <<0, 1>>

\* ------------------------------------------------------------------------
\* cli.py, bulk mode.  main submits one process_single_file call per file
\* to a pool of worker processes and collects the futures in the order of
\* submission.  A call is followed stage by stage (OCR, language detection,
\* NLP, extraction), the stages of different files interleaving as the
\* workers run them.  The only thing the calls share is the directory
\* temp_extraction of OCRProcessor.process_zip.
\* ------------------------------------------------------------------------

\* How many files the input directory holds at most
MaxFiles == 3

\* How many worker processes the pool has (config['app']['parallel_workers'])
Workers == 2

\* the Docs spaCy builds from the recognized texts of the model: the empty
\* text, and a text of one sentence
CliDocs == {<<>>, <<1>>}

\* where an outside failure (an unreadable file, a model that fails) strikes
\* a file: at no stage, or at one of the four
Failures == {"none", "ocr", "lang", "nlp", "extract"}

\* the files of the model, by what matters to the pipeline: the extension,
\* the Doc of the recognized text, the stage that fails
FileKinds ==
  { [ext |-> "pdf", doc |-> <<1>>, fails |-> f] : f \in Failures }
    \cup { [ext |-> "pdf", doc |-> <<>>, fails |-> "none"],
           [ext |-> "zip", doc |-> <<>>, fails |-> "none"] }

\* the paths os.walk finds, two of them with the same file name
CliDirs == << <<"in">>, <<"in", "old">>, <<"in">>, <<"in", "new">> >>

CliStems == <<"cv", "cv", "anna", "budi">>

\* the file at position i of file_paths
FileAt(i, kind) ==
  [dir |-> CliDirs[i], stem |-> CliStems[i], ext |-> kind.ext, doc |-> kind.doc,
   fails |-> kind.fails]

\* os.path.basename(file_path)
basename(file) == <<file.stem, file.ext>>

\* NLPProcessor.models after load_models: only "eng" is loaded
NlpModels == {"eng"}

\* extract_entities on the Docs of the model
ExtractedInfo == [d \in CliDocs |-> extract_entities(d, "eng")]

\* detected_lang (cli.py:43-49): the override, or what detect_language
\* returns, which maps every detection to 'eng'
detected_lang(language_override) ==
  IF language_override # "auto" THEN language_override ELSE "eng"

\* ocr_result['text']: a TypeError for the list process_zip returns
ReadsText(file) == file.ext # "zip"

\* nlp.process_text(text, language_code): None for an empty text, a
\* ValueError for a language without model, the Doc otherwise
process_text(doc, language_code) ==
  IF DocText(doc) = <<>> \/ language_code = "" THEN "None"
  ELSE IF language_code \notin NlpModels THEN "ValueError"
  ELSE "Doc"

\* what a stage of process_single_file does for a file: the exception it
\* raises, or "" when it passes
StageRaises(file, stage, language_override, temp) ==
  CASE stage = "ocr" -> IF file.fails = "ocr" THEN "OSError" ELSE ""
    [] stage = "rmtree" -> IF ~temp THEN "FileNotFoundError" ELSE ""
    [] stage = "lang" ->
         IF language_override # "auto" THEN ""
         ELSE IF ~ReadsText(file) THEN "TypeError"
         ELSE IF file.fails = "lang" THEN "KeyError"
         ELSE ""
    [] stage = "nlp" ->
         IF ~ReadsText(file) THEN "TypeError"
         ELSE IF process_text(file.doc, detected_lang(language_override)) = "ValueError"
         THEN "ValueError"
         ELSE IF process_text(file.doc, detected_lang(language_override)) = "Doc"
                 /\ file.fails = "nlp"
         THEN "RuntimeError"
         ELSE ""
    [] stage = "extract" ->
         IF process_text(file.doc, detected_lang(language_override)) = "None"
         THEN "AttributeError"
         ELSE IF file.fails = "extract" THEN "IndexError"
         ELSE ""

\* the stage that follows
NextStage(file, stage) ==
  CASE stage = "ocr" -> IF file.ext = "zip" THEN "rmtree" ELSE "lang"
    [] stage = "rmtree" -> "lang"
    [] stage = "lang" -> "nlp"
    [] stage = "nlp" -> "extract"
    [] stage = "extract" -> "done"

\* the result dict of process_single_file (cli.py:58-64)
ResultEntry(file, language_override) ==
  [filename |-> basename(file),
   language |-> detected_lang(language_override),
   extracted_info |-> ExtractedInfo[file.doc].rec]

\* the dict its except clause returns (cli.py:69-72)
ErrorEntry(file, exc) == [filename |-> basename(file), error |-> exc]

Pending == [kind |-> "pending"]

\* A faulty variant: no except clause, the exception reaches the future
process_single_file_reraise(file, exc) == [kind |-> "exception", exc |-> exc]

\* except Exception as e (cli.py:67-73): the call returns an error entry
process_single_file_except(file, exc) == [kind |-> "result", val |-> ErrorEntry(file, exc)]

InitBulk ==
  /\ \E n \in 0..MaxFiles :
       cli_files \in { [i \in 1..n |-> FileAt(i, kinds[i])] \o <<>> :
                         kinds \in [1..n -> FileKinds] }
  /\ cli_language \in {"auto", "eng", "ind"}
  /\ cli_stage = <<>>
  /\ cli_future = <<>>
  /\ cli_temp = FALSE
  /\ cli_next = 1
  /\ cli_results = <<>>
  /\ cli_phase = "idle"
  /\ EntitiesUnused
  /\ DatesUnused
  /\ SkillsUnused
  /\ ValidatorUnused
  /\ ExporterUnused
  /\ RepeatUnused

\* main, bulk mode, up to the submission of the calls (cli.py:234-259)
Submit ==
  /\ cli_phase = "idle"
  /\ IF cli_files = <<>>
     THEN /\ cli_phase' = "no files"
          /\ UNCHANGED <<cli_stage, cli_future>>
     ELSE /\ cli_phase' = "collecting"
          /\ cli_stage' = [i \in DOMAIN cli_files |-> "queued"] \o <<>>
          /\ cli_future' = [i \in DOMAIN cli_files |-> Pending] \o <<>>
  /\ UNCHANGED <<cli_files, cli_language, cli_temp, cli_next, cli_results,
                 ee_vars, dn_vars, sm_vars, vd_vars, ex_vars, rp_vars>>

Running == { i \in DOMAIN cli_stage : cli_stage[i] \notin {"queued", "done"} }

\* a free worker takes the next call of the queue
WorkerTakes(i) ==
  /\ cli_phase = "collecting"
  /\ cli_stage[i] = "queued"
  /\ \A j \in 1..(i - 1) : cli_stage[j] # "queued"
  /\ Cardinality(Running) < Workers
  /\ cli_stage' = [cli_stage EXCEPT ![i] = "ocr"]
  /\ UNCHANGED <<cli_files, cli_language, cli_future, cli_temp, cli_next, cli_results, cli_phase,
                 ee_vars, dn_vars, sm_vars, vd_vars, ex_vars, rp_vars>>

\* a worker runs the next stage of its call
WorkerStep(i) ==
  /\ i \in Running
  /\ \E exc \in {StageRaises(cli_files[i], cli_stage[i], cli_language, cli_temp)} :
       IF exc # ""
       THEN /\ cli_stage' = [cli_stage EXCEPT ![i] = "done"]
            /\ cli_future' = [cli_future EXCEPT ![i] = process_single_file_except(cli_files[i], exc)]
            /\ UNCHANGED cli_temp
       ELSE /\ cli_stage' = [cli_stage EXCEPT ![i] = NextStage(cli_files[i], @)]
            /\ cli_future' =
                 IF cli_stage[i] = "extract"
                 THEN [cli_future EXCEPT
                         ![i] = [kind |-> "result", val |-> ResultEntry(cli_files[i], cli_language)]]
                 ELSE cli_future
            /\ cli_temp' =
                 IF cli_files[i].ext # "zip" THEN cli_temp
                 ELSE IF cli_stage[i] = "ocr" THEN TRUE
                 ELSE IF cli_stage[i] = "rmtree" THEN FALSE
                 ELSE cli_temp
  /\ UNCHANGED <<cli_files, cli_language, cli_next, cli_results, cli_phase,
                 ee_vars, dn_vars, sm_vars, vd_vars, ex_vars, rp_vars>>

\* A faulty variant: the futures are collected as they complete
CollectAsCompleted ==
  /\ cli_phase = "collecting"
  /\ cli_next \in DOMAIN cli_files
  /\ \E i \in DOMAIN cli_files :
       /\ cli_stage[i] = "done"
       /\ \A k \in DOMAIN cli_results : cli_results[k] # cli_future[i].val
       /\ cli_results' = Append(cli_results, cli_future[i].val)
  /\ cli_next' = cli_next + 1
  /\ UNCHANGED <<cli_files, cli_language, cli_stage, cli_future, cli_temp, cli_phase,
                 ee_vars, dn_vars, sm_vars, vd_vars, ex_vars, rp_vars>>

\* the loop of main (cli.py:265-271): future.result() of the next future,
\* appended, or logged when it raises
Collect ==
  /\ cli_phase = "collecting"
  /\ cli_next \in DOMAIN cli_files
  /\ cli_stage[cli_next] = "done"
  /\ cli_results' =
       IF cli_future[cli_next].kind = "result"
       THEN Append(cli_results, cli_future[cli_next].val)
       ELSE cli_results
  /\ cli_next' = cli_next + 1
  /\ UNCHANGED <<cli_files, cli_language, cli_stage, cli_future, cli_temp, cli_phase,
                 ee_vars, dn_vars, sm_vars, vd_vars, ex_vars, rp_vars>>

\* export_results(results, ...) after the loop (cli.py:274)
ExportResults ==
  /\ cli_phase = "collecting"
  /\ cli_next = Len(cli_files) + 1
  /\ cli_phase' = "exported"
  /\ UNCHANGED <<cli_files, cli_language, cli_stage, cli_future, cli_temp, cli_next, cli_results,
                 ee_vars, dn_vars, sm_vars, vd_vars, ex_vars, rp_vars>>

NextBulk ==
  \/ Submit
  \/ \E i \in DOMAIN cli_stage : WorkerTakes(i)
  \/ \E i \in DOMAIN cli_stage : WorkerStep(i)
  \/ Collect
  \/ ExportResults

SpecBulk == InitBulk /\ [][NextBulk]_vars

\* the workers and main keep running
FairBulk == SpecBulk /\ WF_vars(NextBulk)

\* ------------------------------------------------------------------------
\* Claims about bulk mode
\* ------------------------------------------------------------------------

Exported == cli_phase = "exported"

\* a stage of the call for file i raises, whatever the other files do
RaisesSomewhere(file) ==
  \E stage \in {"ocr", "lang", "nlp", "extract"} :
    StageRaises(file, stage, cli_language, TRUE) # ""

\* C17: in bulk mode, whatever subset of the files raises during OCR,
\* language detection, NLP or extraction, every other file still yields its
\* extracted record, and results ends with exactly one entry per input
\* file: a record, or an error entry carrying that file's name.
C17_OneEntryPerFile ==
  Exported =>
    /\ Len(cli_results) = Len(cli_files)
    /\ \A i \in DOMAIN cli_files :
         /\ cli_results[i].filename = basename(cli_files[i])
         /\ IF RaisesSomewhere(cli_files[i])
            THEN "error" \in DOMAIN cli_results[i]
            ELSE /\ "error" \notin DOMAIN cli_results[i]
                 /\ cli_results[i].extracted_info = ExtractedInfo[cli_files[i].doc].rec

\* C17 happens: three files, the first and the last raise at different
\* stages, the one between them yields its record
C17_Witness ==
  /\ Exported
  /\ Len(cli_files) = 3
  /\ cli_files[1].fails = "ocr" /\ "error" \in DOMAIN cli_results[1]
  /\ cli_files[3].fails = "extract" /\ "error" \in DOMAIN cli_results[3]
  /\ cli_language = "auto"
  /\ "extracted_info" \in DOMAIN cli_results[2]
  /\ cli_results[2].extracted_info.personal_info.name = <<"A","l","i","c","e">>

\* no failure blocks the run: main reaches export_results (or returns for
\* an empty directory)
C17_RunEnds == <>(cli_phase \in {"exported", "no files"})

\* two archives at once: the second rmtree finds the directory gone
C17_SharedDirectory ==
  /\ Exported
  /\ \E i \in DOMAIN cli_results :
       "error" \in DOMAIN cli_results[i] /\ cli_results[i].error = "FileNotFoundError"

\* the recognized text of the file is empty and nothing outside fails
EmptyText(file) == ReadsText(file) /\ DocText(file.doc) = <<>> /\ file.fails = "none"

\* C18: on empty input every extractor returns its not-found value rather
\* than failing; end to end, a document whose recognized text is empty
\* produces an extracted record with empty fields, not an error result.
C18_EmptyTextGivesRecord ==
  Exported =>
    \A i \in DOMAIN cli_files :
      EmptyText(cli_files[i]) =>
        /\ "error" \notin DOMAIN cli_results[i]
        /\ "extracted_info" \in DOMAIN cli_results[i]
        /\ cli_results[i].extracted_info.personal_info.name = None
        /\ cli_results[i].extracted_info.personal_info.email = None
        /\ cli_results[i].extracted_info.skills = {}
        /\ cli_results[i].extracted_info.education = <<>>
        /\ cli_results[i].extracted_info.work_experience = <<>>
        /\ cli_results[i].extracted_info.summary = None

\* what the code does instead: process_text returns None for the empty
\* text, extract_entities(None, ...) raises, and the file gets an error entry
C18_ErrorEntry ==
  /\ Exported
  /\ Len(cli_files) = 1
  /\ EmptyText(cli_files[1])
  /\ cli_language = "auto"
  /\ cli_results = <<ErrorEntry(cli_files[1], "AttributeError")>>

\* ------------------------------------------------------------------------
\* Exporter.export_json (modules/exporter.py) and the JSON branch of
\* export_results (cli.py): json.dump(data, f, ensure_ascii=False,
\* indent=2, default=str), and json.load on the reading side.  A Python
\* value is kept with its type, so that None, '' and [] differ; the text
\* is written and read character by character.  A float is kept in
\* millionths.
\* ------------------------------------------------------------------------

PyNone == [t |-> "none"]

PyBool(b) == [t |-> "bool", v |-> b]

PyStr(s) == [t |-> "str", v |-> s]

PyFloat(millionths) == [t |-> "float", v |-> millionths]

PyList(items) == [t |-> "list", v |-> items]

\* a dict, as its (key, value) pairs in insertion order
PyDict(items) == [t |-> "dict", v |-> items]

Item(k, v) == [k |-> k, v |-> v]

Quote == "\""

Backslash == "\\"

\* py_encode_basestring: the escapes of a character inside a JSON string
EscapeChar(c) ==
  CASE c = Quote -> <<Backslash, Quote>>
    [] c = Backslash -> <<Backslash, Backslash>>
    [] c = "\n" -> <<Backslash, "n">>
    [] c = "\t" -> <<Backslash, "t">>
    [] OTHER -> <<c>>

RECURSIVE Concat(_, _, _)
\* ''.join(parts[lo..hi]), by halves
Concat(parts, lo, hi) ==
  IF lo > hi THEN <<>>
  ELSE IF lo = hi THEN parts[lo]
  ELSE Concat(parts, lo, (lo + hi) \div 2) \o Concat(parts, ((lo + hi) \div 2) + 1, hi)

encode_basestring(s) ==
  <<Quote>> \o Concat([i \in DOMAIN s |-> EscapeChar(s[i])], 1, Len(s)) \o <<Quote>>

RECURSIVE IntDigits(_)
\* str(n) for n >= 0
IntDigits(n) ==
  IF n < 10 THEN <<DigitSeq[n + 1]>> ELSE IntDigits(n \div 10) \o <<DigitSeq[(n % 10) + 1]>>

RECURSIVE StripZeros(_)
\* the fraction digits without trailing zeros, one digit at least
StripZeros(ds) ==
  IF Len(ds) > 1 /\ ds[Len(ds)] = "0" THEN StripZeros(SubSeq(ds, 1, Len(ds) - 1)) ELSE ds

\* how many millionths make 1.0
Million == 1000000

\* n as six digits
Fmt06(n) ==
  <<DigitSeq[((n \div 100000) % 10) + 1], DigitSeq[((n \div 10000) % 10) + 1],
    DigitSeq[((n \div 1000) % 10) + 1], DigitSeq[((n \div 100) % 10) + 1],
    DigitSeq[((n \div 10) % 10) + 1], DigitSeq[(n % 10) + 1]>>

\* float.__repr__: 0.85, 1.0, 0.933333
float_repr(millionths) ==
  IntDigits(millionths \div Million) \o <<".">> \o StripZeros(Fmt06(millionths % Million))

\* the newline and the indentation json.dump writes with indent=2
Newline(level) == <<"\n">> \o [i \in 1..(2 * level) |-> " "]

\* A faulty variant: an empty list is written as null
dump_list_empty_as_null(texts, level) ==
  IF texts = <<>> THEN <<"n", "u", "l", "l">>
  ELSE <<"[">> \o Newline(level + 1) \o Join(texts, <<",">> \o Newline(level + 1))
         \o Newline(level) \o <<"]">>

\* a list whose items are already written
dump_list(texts, level) ==
  IF texts = <<>> THEN <<"[", "]">>
  ELSE <<"[">> \o Newline(level + 1) \o Join(texts, <<",">> \o Newline(level + 1))
         \o Newline(level) \o <<"]">>

\* a dict whose members are already written
dump_dict(texts, level) ==
  IF texts = <<>> THEN <<"{", "}">>
  ELSE <<"{">> \o Newline(level + 1) \o Join(texts, <<",">> \o Newline(level + 1))
         \o Newline(level) \o <<"}">>

RECURSIVE dumps(_, _)
\* json.dumps(o, ensure_ascii=False, indent=2), o nested level deep
dumps(o, level) ==
  CASE o.t = "none" -> <<"n", "u", "l", "l">>
    [] o.t = "bool" -> IF o.v THEN <<"t", "r", "u", "e">> ELSE <<"f", "a", "l", "s", "e">>
    [] o.t = "str" -> encode_basestring(o.v)
    [] o.t = "float" -> float_repr(o.v)
    [] o.t = "list" ->
         dump_list([i \in DOMAIN o.v |-> dumps(o.v[i], level + 1)] \o <<>>, level)
    [] o.t = "dict" ->
         dump_dict([i \in DOMAIN o.v |->
                      encode_basestring(o.v[i].k) \o <<":", " ">> \o dumps(o.v[i].v, level + 1)]
                     \o <<>>, level)

JsonSpace == {" ", "\n", "\t", "\r"}

\* the first position from p on that holds no white space
skip_ws(t, p) ==
  CHOOSE q \in p..(Len(t) + 1) :
    /\ q = Len(t) + 1 \/ t[q] \notin JsonSpace
    /\ \A j \in p..(q - 1) : t[j] \in JsonSpace

\* the character an escape stands for
Unescape(c) ==
  CASE c = "n" -> "\n"
    [] c = "t" -> "\t"
    [] OTHER -> c

\* how many backslashes stand right before position q, from p on
BackslashRun(t, p, q) ==
  CHOOSE k \in 0..(q - p) :
    /\ \A j \in (q - k)..(q - 1) : t[j] = Backslash
    /\ k = q - p \/ t[q - k - 1] # Backslash

\* the character at q is taken as it stands, or as the second of an escape
Escaped(t, p, q) == BackslashRun(t, p, q) % 2 = 1

\* py_scanstring from the character after the opening quote: the string and
\* the position after the closing quote, which is the first quote that no
\* backslash escapes; a backslash that starts an escape is left out and
\* the character after it decoded
scan_string(t, p) ==
  Bind(CHOOSE q \in p..Len(t) :
         /\ t[q] = Quote /\ ~Escaped(t, p, q)
         /\ \A j \in p..(q - 1) : t[j] # Quote \/ Escaped(t, p, j),
       LAMBDA end :
         [val |-> SelectSeq([i \in 1..(end - p) |->
                              IF Escaped(t, p, p + i - 1) THEN <<Unescape(t[p + i - 1])>>
                              ELSE IF t[p + i - 1] = Backslash THEN <<>>
                              ELSE <<t[p + i - 1]>>],
                            LAMBDA c : c # <<>>),
          p |-> end + 1])

\* the first position from p on that holds no digit
digits_end(t, p) ==
  CHOOSE q \in p..(Len(t) + 1) :
    /\ q = Len(t) + 1 \/ t[q] \notin Digits
    /\ \A j \in p..(q - 1) : t[j] \in Digits

\* the fraction digits as millionths
FracMillionths(ds) == ToInt(SubSeq(ds \o <<"0", "0", "0", "0", "0", "0">>, 1, 6))

\* a number with a fraction part: a float
scan_number(t, p) ==
  Bind(digits_end(t, p), LAMBDA dot :
    Bind(digits_end(t, dot + 1), LAMBDA end :
      [val |-> PyFloat(ToInt(SubSeq(t, p, dot - 1)) * Million
                         + FracMillionths(SubSeq(t, dot + 1, end - 1))),
       p |-> end]))

RECURSIVE scan_once(_, _)
RECURSIVE scan_array(_, _, _)
RECURSIVE scan_object(_, _, _)

\* the value that starts after the white space at p, and the position
\* after the white space that follows it
scan_value(t, p) ==
  Bind(scan_once(t, skip_ws(t, p)), LAMBDA r : [val |-> r.val, p |-> skip_ws(t, r.p)])

\* "key": value after the white space at p, and the position after the
\* white space that follows it
scan_member(t, p) ==
  Bind(scan_string(t, skip_ws(t, p) + 1), LAMBDA key :
    Bind(scan_value(t, skip_ws(t, key.p) + 1), LAMBDA r :
      [val |-> Item(Concat(key.val, 1, Len(key.val)), r.val), p |-> r.p]))

\* JSONDecoder.scan_once at position p: the value and the position after it
scan_once(t, p) ==
  CASE t[p] = Quote ->
         Bind(scan_string(t, p + 1), LAMBDA r :
           [val |-> PyStr(Concat(r.val, 1, Len(r.val))), p |-> r.p])
    [] t[p] = "n" -> [val |-> PyNone, p |-> p + 4]
    [] t[p] = "t" -> [val |-> PyBool(TRUE), p |-> p + 4]
    [] t[p] = "f" -> [val |-> PyBool(FALSE), p |-> p + 5]
    [] t[p] = "[" ->
         IF t[skip_ws(t, p + 1)] = "]"
         THEN [val |-> PyList(<<>>), p |-> skip_ws(t, p + 1) + 1]
         ELSE scan_array(t, p + 1, <<>>)
    [] t[p] = "{" ->
         IF t[skip_ws(t, p + 1)] = "}"
         THEN [val |-> PyDict(<<>>), p |-> skip_ws(t, p + 1) + 1]
         ELSE scan_object(t, p + 1, <<>>)
    [] OTHER -> scan_number(t, p)

\* JSONArray: the items from the one after p on
scan_array(t, p, acc) ==
  Bind(scan_value(t, p), LAMBDA r :
    IF t[r.p] = ","
    THEN scan_array(t, r.p + 1, Append(acc, r.val))
    ELSE [val |-> PyList(Append(acc, r.val)), p |-> r.p + 1])

\* JSONObject: the members from the one after p on
scan_object(t, p, acc) ==
  Bind(scan_member(t, p), LAMBDA m :
    IF t[m.p] = ","
    THEN scan_object(t, m.p + 1, Append(acc, m.val))
    ELSE [val |-> PyDict(Append(acc, m.val)), p |-> m.p + 1])

\* json.loads(text)
loads(text) == scan_once(text, skip_ws(text, 1)).val

\* a string or None
PyOptStr(x) == IF x = None THEN PyNone ELSE PyStr(x)

PyStrList(xs) == PyList([i \in DOMAIN xs |-> PyStr(xs[i])] \o <<>>)

\* list(set(...)): the strings of the set in the order the set iterates
PySetList(S) == PyStrList(CHOOSE xs \in [1..Cardinality(S) -> S] : Range(xs) = S)

\* score / count of calculate_personal_info_confidence as a float
QuotientFloat(q) == PyFloat((q.num * 10000) \div q.den)

\* a score kept in hundredths as a float
HundredthsFloat(n) == PyFloat(n * 10000)

PyEducation(e) ==
  PyDict(<<Item(<<"i","n","s","t","i","t","u","t","i","o","n">>, PyOptStr(e.institution)),
           Item(<<"d","e","g","r","e","e">>, PyOptStr(e.degree)),
           Item(<<"f","i","e","l","d">>, PyOptStr(e.field)),
           Item(<<"d","a","t","e","s">>, IF e.dates = None THEN PyNone ELSE PyStrList(e.dates))>>)

PyExperience(e) ==
  PyDict(<<Item(<<"c","o","m","p","a","n","y">>, PyOptStr(e.company)),
           Item(<<"t","i","t","l","e">>, PyOptStr(e.title)),
           Item(<<"d","a","t","e","s">>, IF e.dates = None THEN PyNone ELSE PyStrList(e.dates)),
           Item(<<"r","e","s","p","o","n","s","i","b","i","l","i","t","i","e","s">>, PyStrList(e.responsibilities))>>)

\* the dict extract_entities returns (entity_extractor.py:31-48), as the
\* Python value it is
PyRecord(rec) ==
  PyDict(<<Item(<<"p","e","r","s","o","n","a","l","_","i","n","f","o">>,
                PyDict(<<Item(<<"n","a","m","e">>, PyOptStr(rec.personal_info.name)),
                         Item(<<"e","m","a","i","l">>, PyOptStr(rec.personal_info.email)),
                         Item(<<"p","h","o","n","e">>, PyOptStr(rec.personal_info.phone)),
                         Item(<<"a","d","d","r","e","s","s">>, PyOptStr(rec.personal_info.address))>>)),
           Item(<<"s","k","i","l","l","s">>, PySetList(rec.skills)),
           Item(<<"e","d","u","c","a","t","i","o","n">>,
                PyList([i \in DOMAIN rec.education |-> PyEducation(rec.education[i])] \o <<>>)),
           Item(<<"w","o","r","k","_","e","x","p","e","r","i","e","n","c","e">>,
                PyList([i \in DOMAIN rec.work_experience |->
                          PyExperience(rec.work_experience[i])] \o <<>>)),
           Item(<<"l","a","n","g","u","a","g","e","s">>, PySetList(rec.languages)),
           Item(<<"c","e","r","t","i","f","i","c","a","t","i","o","n","s">>, PySetList(rec.certifications)),
           Item(<<"s","u","m","m","a","r","y">>, PyOptStr(rec.summary)),
           Item(<<"c","o","n","f","i","d","e","n","c","e","_","s","c","o","r","e","s">>,
                PyDict(<<Item(<<"o","v","e","r","a","l","l">>, HundredthsFloat(rec.confidence_scores.overall)),
                         Item(<<"p","e","r","s","o","n","a","l","_","i","n","f","o">>, QuotientFloat(rec.confidence_scores.personal_info)),
                         Item(<<"s","k","i","l","l","s">>, HundredthsFloat(rec.confidence_scores.skills)),
                         Item(<<"e","d","u","c","a","t","i","o","n">>, HundredthsFloat(rec.confidence_scores.education)),
                         Item(<<"w","o","r","k","_","e","x","p","e","r","i","e","n","c","e">>,
                              HundredthsFloat(rec.confidence_scores.work_experience))>>))>>)

\* names an entity recognizer can return that need care in JSON: one with
\* quotes and a backslash, one with a line break
AwkwardNames == {<<"P", "a", "t", " ", Quote, "P", Backslash, "J", Quote>>, <<"A", "l", "\n", "B">>}

\* export_json(data, output_path) for the record extract_entities returned,
\* or for the same record under another name
ExportJson ==
  /\ ee_out.kind = "record"
  /\ ex_data = Idle
  /\ \E name \in {ee_out.rec.personal_info.name} \cup AwkwardNames :
       \E data \in {PyRecord([ee_out.rec EXCEPT !.personal_info.name = name])} :
         /\ ex_data' = data
         /\ ex_file' = dumps(data, 0)
  /\ UNCHANGED <<ee_vars, dn_vars, sm_vars, vd_vars, cli_vars, ex_out, rp_vars>>

\* the tags for which extract_entities can return a record to export
InitExport == InitEntities /\ ee_lang \in SupportedLangs

NextExport == ExtractEntities \/ ExportJson

SpecExport == InitExport /\ [][NextExport]_vars

\* ------------------------------------------------------------------------
\* Claims about the export
\* ------------------------------------------------------------------------

JsonWritten == ex_data # Idle

\* C19: an ExtractedRecord serialized to JSON and parsed back is equal to
\* the original field for field; a null field stays null and an empty
\* collection stays an empty collection.
C19_JsonRoundTrip ==
  JsonWritten => loads(ex_file) = ex_data

\* C19 happens: a record with a null name, a null summary, no skills and no
\* education has been written, and null and [] are both in the text
C19_Witness ==
  /\ JsonWritten
  /\ ee_out.rec.personal_info.name = None
  /\ ee_out.rec.personal_info.email # None
  /\ ee_out.rec.skills = {}
  /\ ee_out.rec.education = <<>>
  /\ ee_out.rec.work_experience # <<>>
  /\ Contains(ex_file, <<Quote, "n", "a", "m", "e", Quote, ":", " ", "n", "u", "l", "l">>)
  /\ Contains(ex_file, <<Quote, "s", "k", "i", "l", "l", "s", Quote, ":", " ", "[", "]">>)

\* a name with quotes, a backslash or a line break comes back as it was
C19_Escapes ==
  /\ JsonWritten
  /\ \E i \in DOMAIN ex_data.v[1].v.v :
       /\ ex_data.v[1].v.v[i].k = <<"n","a","m","e">>
       /\ ex_data.v[1].v.v[i].v.t = "str"
       /\ Quote \in Range(ex_data.v[1].v.v[i].v.v)
  /\ loads(ex_file) = ex_data

\* ------------------------------------------------------------------------
\* SkillsMatcher: loading the dictionaries (skills_matcher.py:15-44)
\* ------------------------------------------------------------------------

\* a file that exists and cannot be opened
Unreadable == [state |-> "unreadable", text |-> <<>>]

\* a file whose text is no JSON: cut off in the middle
Malformed == [state |-> "malformed", text |-> <<"[", Quote, "P", "y">>]

\* a file with the text json.dump writes for a list of skills
JsonFile(skills) == [state |-> "json", text |-> dumps(PyStrList(skills), 0)]

\* a file that holds JSON, but not a list
NullFile == [state |-> "json", text |-> dumps(PyNone, 0)]

EngFiles ==
  {Absent, Unreadable, Malformed, NullFile,
   JsonFile(<<<<"P","y","t","h","o","n">>>>), JsonFile(<<<<"P","y","t","h","o","n">>, <<"J","a","v","a">>, <<"P","y","t","h","o","n">>>>),
   JsonFile(<<<<"D","a","t","a"," ","A","n","a","l","y","s","i","s">>, <<"P","y","t","h","o","n">>>>)}

IndFiles == {Absent, Unreadable, JsonFile(IndDict)}

RECURSIVE SetOf(_, _)
\* set(xs), in the order of first occurrence
SetOf(xs, seen) ==
  IF xs = <<>> THEN seen
  ELSE SetOf(Tail(xs), IF xs[1] \in Range(seen) THEN seen ELSE Append(seen, xs[1]))

\* one language: the exists test, then open, json.load and set() inside
\* the try; whatever they raise is logged and the set stays empty.  set()
\* of a list takes its strings (a list or dict among them is unhashable),
\* of a dict its keys, of a string its characters; None, a number or a
\* boolean is not iterable
LoadDictionary(file) ==
  IF file.state = "absent" THEN <<>>
  ELSE IF file.state \in {"unreadable", "malformed"} THEN <<>>
  ELSE Bind(loads(file.text), LAMBDA skills :
         IF skills.t = "list"
         THEN IF \A i \in DOMAIN skills.v : skills.v[i].t = "str"
              THEN SetOf([i \in DOMAIN skills.v |-> skills.v[i].v] \o <<>>, <<>>)
              ELSE <<>>
         ELSE IF skills.t = "dict"
         THEN SetOf([i \in DOMAIN skills.v |-> skills.v[i].k] \o <<>>, <<>>)
         ELSE IF skills.t = "str"
         THEN SetOf([i \in DOMAIN skills.v |-> <<skills.v[i]>>] \o <<>>, <<>>)
         ELSE <<>>)

\* A faulty variant: one try around both languages, the first failure ends
\* the loading
load_skills_dictionaries_one_try(files) ==
  IF files.eng.state \in {"unreadable", "malformed"}
  THEN [eng |-> <<>>, ind |-> <<>>]
  ELSE [eng |-> LoadDictionary(files.eng), ind |-> LoadDictionary(files.ind)]

\* SkillsMatcher._load_skills_dictionaries
load_skills_dictionaries(files) ==
  [eng |-> LoadDictionary(files.eng), ind |-> LoadDictionary(files.ind)]

\* the texts of the later calls: no word, one word, a sentence
LoadTexts == { Join(ws, <<" ">>) : ws \in SeqsUpTo(TextWords, 1) } \cup ExampleTexts

InitLoad ==
  /\ sm_files \in { [eng |-> e, ind |-> i] : e \in EngFiles, i \in IndFiles }
  /\ sm_pc = "new"
  /\ sm_skills_dict = [eng |-> <<>>, ind |-> <<>>]
  /\ sm_fuzzy_threshold \in {80, 100}
  /\ sm_lib \in Releases
  /\ sm_text = <<>>
  /\ sm_lang = "eng"
  /\ sm_out = Idle
  /\ EntitiesUnused
  /\ DatesUnused
  /\ ValidatorUnused
  /\ CliUnused
  /\ ExporterUnused
  /\ RepeatUnused

\* SkillsMatcher(config)
Construct ==
  /\ sm_pc = "new"
  /\ sm_skills_dict' = load_skills_dictionaries(sm_files)
  /\ sm_pc' = "ready"
  /\ UNCHANGED <<sm_fuzzy_threshold, sm_lib, sm_text, sm_lang, sm_out, sm_files,
                 ee_vars, dn_vars, vd_vars, cli_vars, ex_vars, rp_vars>>

\* any later call of extract_skills
ExtractSkillsLater ==
  /\ sm_pc = "ready"
  /\ \E text \in LoadTexts, lang_code \in LangTags :
       /\ sm_text' = text
       /\ sm_lang' = lang_code
       /\ sm_out' = SkillsMatcher_extract_skills(text, lang_code, sm_skills_dict,
                                                 sm_fuzzy_threshold, sm_lib)
  /\ UNCHANGED <<sm_skills_dict, sm_fuzzy_threshold, sm_lib, sm_files, sm_pc,
                 ee_vars, dn_vars, vd_vars, cli_vars, ex_vars, rp_vars>>

NextLoad == Construct \/ ExtractSkillsLater

SpecLoad == InitLoad /\ [][NextLoad]_vars

\* ------------------------------------------------------------------------
\* Claims about the loading
\* ------------------------------------------------------------------------

\* the file is missing or cannot be read
NotLoadable(file) == file.state \in {"absent", "unreadable", "malformed"}

OtherLang(lang) == IF lang = "eng" THEN "ind" ELSE "eng"

\* C20: a missing or unreadable skill dictionary file is non-fatal:
\* SkillsMatcher is constructed with that language's skill set empty, every
\* later extract_skills call for that language returns an empty list
\* without raising, and the other language's dictionary is unaffected.
C20_MissingDictionary ==
  sm_pc = "ready" =>
    \A lang \in SupportedLangs :
      NotLoadable(sm_files[lang]) =>
        /\ sm_skills_dict[lang] = <<>>
        /\ (sm_out # Idle /\ sm_lang = lang) => sm_out = Returned_list(<<>>)
        /\ sm_skills_dict[OtherLang(lang)] = LoadDictionary(sm_files[OtherLang(lang)])
        /\ (sm_files[OtherLang(lang)] = JsonFile(IndDict)) =>
             sm_skills_dict[OtherLang(lang)] = IndDict

\* C20 happens: the English file cannot be read, the Indonesian one is
\* loaded, and a call for English on a text that names a skill returned []
C20_Witness ==
  /\ sm_pc = "ready"
  /\ sm_files.eng = Unreadable
  /\ sm_skills_dict.eng = <<>>
  /\ sm_skills_dict.ind = IndDict
  /\ sm_lang = "eng"
  /\ sm_text = <<"P","y","t","h","o","n">>
  /\ sm_out = Returned_list(<<>>)

\* the file is missing altogether, and the call is for Indonesian
C20_MissingIndonesian ==
  /\ sm_pc = "ready"
  /\ sm_files.ind = Absent
  /\ sm_files.eng = JsonFile(<<<<"P","y","t","h","o","n">>>>)
  /\ sm_skills_dict.eng = <<<<"P","y","t","h","o","n">>>>
  /\ sm_lang = "ind"
  /\ sm_text = <<"P","y","t","h","o","n">>
  /\ sm_out = Returned_list(<<>>)

\* ------------------------------------------------------------------------
\* One instance of each component, called again and again
\* (entity_extractor.py:29-50, date_normalizer.py:80-199,
\* skills_matcher.py:46-117, validation.py:15-47).  Every call is logged
\* with its arguments and its result.  Between two calls the day may end:
\* normalize_date reads datetime.datetime.now() (date_normalizer.py:110).
\* ------------------------------------------------------------------------

\* How many calls one instance serves in the model
MaxCalls == 2

RepeatDocs == {<<>>, <<1>>, <<6>>, <<8>>}

RepeatDateTexts == {<<"2","0","1","9">>, <<"P","r","e","s","e","n","t">>, <<"2","0","1","9"," ","-"," ","P","r","e","s","e","n","t">>}

\* the texts skills are extracted from, one of them misspelt
RepeatSkillTexts == {<<>>, <<"P","y","t","h","o","n">>, <<"p","y","h","t","o","n">>, <<"d","a","t","a">>}

RepeatFiles ==
  { [eng |-> JsonFile(<<<<"D","a","t","a"," ","A","n","a","l","y","s","i","s">>, <<"P","y","t","h","o","n">>>>),
     ind |-> JsonFile(IndDict)] }

RepeatHeaps ==
  { RecordHeap(pi, edu, Missing, Missing) :
      pi \in {Missing, Present([name |-> <<"A","l","i","c","e">>, email |-> <<"a","@","b",".","i","o">>,
                                phone |-> None, address |-> None])},
      edu \in {Present(<<EduValid>>)} }

InitRepeat ==
  /\ ee_doc = <<>> /\ ee_lang = "eng" /\ ee_out = Idle
  /\ dn_text = <<>> /\ dn_lang = "eng" /\ dn_out = Idle
  /\ dn_today \in Todays
  /\ sm_files \in RepeatFiles
  /\ sm_skills_dict = load_skills_dictionaries(sm_files)
  /\ sm_pc = "ready"
  /\ sm_fuzzy_threshold = 80
  /\ sm_lib \in Releases
  /\ sm_text = <<>> /\ sm_lang = "eng" /\ sm_out = Idle
  /\ vd_before \in RepeatHeaps
  /\ vd_heap = vd_before
  /\ vd_out = Idle
  /\ CliUnused
  /\ ExporterUnused
  /\ RepeatUnused

Call(op, args, out) == [op |-> op, args |-> args, out |-> out]

\* the log is the log of one instance: of the component that has ops
Serves(ops) ==
  Len(rp_log) < MaxCalls /\ (IF rp_log = <<>> THEN TRUE ELSE rp_log[1].op \in ops)

\* extract_entities(doc, lang_code) once more
AgainExtractEntities ==
  /\ Serves({"extract_entities"})
  /\ \E doc \in RepeatDocs, lang_code \in SupportedLangs :
       \E out \in {extract_entities(doc, lang_code)} :
         /\ ee_doc' = doc /\ ee_lang' = lang_code /\ ee_out' = out
         /\ rp_log' = Append(rp_log, Call("extract_entities", <<doc, lang_code>>, out))
  /\ UNCHANGED <<dn_vars, sm_vars, vd_vars, cli_vars, ex_vars>>

\* extract_dates(text, lang_code) or extract_date_range(text, lang_code)
\* once more; the second starts with the first (date_normalizer.py:169)
AgainExtractDates ==
  /\ Serves({"extract_dates", "extract_date_range"})
  /\ \E text \in RepeatDateTexts, lang_code \in SupportedLangs :
       \E dates \in {extract_dates(text, lang_code, dn_today)} :
         \/ /\ dn_text' = text /\ dn_lang' = lang_code
            /\ dn_out' = [kind |-> "dates", dates |-> dates]
            /\ rp_log' = Append(rp_log, Call("extract_dates", <<text, lang_code>>, dates))
         \/ \E range \in {RangeOf(text, dates)} :
              /\ dn_text' = text /\ dn_lang' = lang_code
              /\ dn_out' = [kind |-> "range", dates |-> dates, range |-> range]
              /\ rp_log' = Append(rp_log, Call("extract_date_range", <<text, lang_code>>, range))
  /\ UNCHANGED <<dn_today, ee_vars, sm_vars, vd_vars, cli_vars, ex_vars>>

\* extract_skills(text, lang_code) once more
AgainExtractSkills ==
  /\ Serves({"extract_skills"})
  /\ \E text \in RepeatSkillTexts, lang_code \in SupportedLangs :
       \E out \in {SkillsMatcher_extract_skills(text, lang_code, sm_skills_dict,
                                                sm_fuzzy_threshold, sm_lib)} :
         /\ sm_text' = text /\ sm_lang' = lang_code /\ sm_out' = out
         /\ rp_log' = Append(rp_log, Call("extract_skills", <<text, lang_code>>, out))
  /\ UNCHANGED <<sm_skills_dict, sm_fuzzy_threshold, sm_lib, sm_files, sm_pc,
                 ee_vars, dn_vars, vd_vars, cli_vars, ex_vars>>

\* validate_extracted_data(data) once more, on the record as the caller
\* built it
AgainValidateData ==
  /\ Serves({"validate_extracted_data"})
  /\ \E r \in {validate_extracted_data(vd_before, DataAt)} :
       /\ vd_heap' = r.h
       /\ vd_out' = [kind |-> "validated", at |-> r.at]
       /\ rp_log' = Append(rp_log, Call("validate_extracted_data", vd_before, r))
  /\ UNCHANGED <<vd_before, ee_vars, dn_vars, sm_vars, cli_vars, ex_vars>>

\* midnight passes between two calls
DayEnds ==
  /\ rp_log # <<>>
  /\ Len(rp_log) < MaxCalls
  /\ \E tomorrow \in Todays :
       /\ StrLess(dn_today, tomorrow)
       /\ dn_today' = tomorrow
  /\ UNCHANGED <<dn_text, dn_lang, dn_out, ee_vars, sm_vars, vd_vars, cli_vars, ex_vars, rp_vars>>

NextRepeat ==
  \/ AgainExtractEntities
  \/ AgainExtractDates
  \/ AgainExtractSkills
  \/ AgainValidateData
  \/ DayEnds

SpecRepeat == InitRepeat /\ [][NextRepeat]_vars

\* ------------------------------------------------------------------------
\* Claims about repeated calls
\* ------------------------------------------------------------------------

\* two calls of one operation with equal arguments
SameCall(a, b) == a.op = b.op /\ a.args = b.args

\* the dictionaries are what the constructor loaded
TablesKept == sm_skills_dict = load_skills_dictionaries(sm_files)

\* C21: each call of the core operations is a pure function of its inputs
\* and the static tables: after any earlier calls on the same instance, a
\* call with equal inputs returns an equal result, and no call changes the
\* loaded skill dictionaries.
C21_CallsArePure ==
  /\ \A i \in DOMAIN rp_log : \A j \in DOMAIN rp_log :
       SameCall(rp_log[i], rp_log[j]) => rp_log[i].out = rp_log[j].out
  /\ TablesKept

\* the operations that never reach normalize_date on a present indicator
\* do repeat their results, and the dictionaries stay as loaded
C21_PureButTheClock ==
  /\ \A i \in DOMAIN rp_log : \A j \in DOMAIN rp_log :
       (SameCall(rp_log[i], rp_log[j])
          /\ rp_log[i].op \notin {"extract_dates", "extract_date_range"})
         => rp_log[i].out = rp_log[j].out
  /\ TablesKept

\* the same text on two days: two results
C21_TwoDays ==
  /\ Len(rp_log) = 2
  /\ rp_log[1].op = "extract_date_range"
  /\ SameCall(rp_log[1], rp_log[2])
  /\ rp_log[1].args = <<<<"2","0","1","9"," ","-"," ","P","r","e","s","e","n","t">>, "eng">>
  /\ rp_log[1].out # rp_log[2].out

\* ------------------------------------------------------------------------
\* calculate_personal_info_confidence on its own (entity_extractor.py:273-298)
\*
\* extract_personal_info hands it only e-mail addresses and phone numbers its
\* own regexes found; called on its own it also meets values that are present
\* and do not match.
\* ------------------------------------------------------------------------

ConfidenceNames == {None, <<>>, <<"A","l","i","c","e">>}

ConfidenceEmails == {None, <<>>, <<"a","@","b",".","i","o">>, <<"a","@","b">>, <<" ","a","@","b",".","i","o">>}

ConfidencePhones == {None, <<"0","8","1","2","-","3","4","5","6","-","7","8","9">>, <<"+","6","2"," ","8","1","2","-","3","4","5","6","-","7","8","9">>, <<"1","2">>}

ConfidenceAddresses == {None, <<>>, <<"J","a","k","a","r","t","a">>}

ConfidenceInputs ==
  { [name |-> n, email |-> e, phone |-> p, address |-> a] :
      n \in ConfidenceNames, e \in ConfidenceEmails,
      p \in ConfidencePhones, a \in ConfidenceAddresses }

InitConfidence ==
  \/ InitEntities
  \/ /\ ee_doc = <<>>
     /\ ee_lang = "eng"
     /\ ee_out \in { [kind |-> "personal_info", personal_info |-> pi] : pi \in ConfidenceInputs }
     /\ DatesUnused
     /\ SkillsUnused
     /\ ValidatorUnused
     /\ CliUnused
     /\ ExporterUnused
     /\ RepeatUnused

CalculatePersonalInfoConfidence ==
  /\ ee_out.kind = "personal_info"
  /\ ee_out' = [kind |-> "confidence",
                personal_info |-> ee_out.personal_info,
                value |-> calculate_personal_info_confidence(ee_out.personal_info)]
  /\ UNCHANGED <<ee_doc, ee_lang, dn_vars, sm_vars, vd_vars, cli_vars, ex_vars, rp_vars>>

NextConfidence == ExtractEntities \/ CalculatePersonalInfoConfidence

SpecConfidence == InitConfidence /\ [][NextConfidence]_vars

\* ------------------------------------------------------------------------
\* Claims about the personal_info confidence (checked under SpecConfidence)
\* ------------------------------------------------------------------------

\* the fields that contributed, as the claim names them
Contributed(pi) ==
  { f \in {"name", "address"} : pi[f] # None /\ pi[f] # <<>> }
    \cup { f \in {"email"} : pi.email # None /\ pi.email # <<>> /\ EmailMatchesAtStart(pi.email) }
    \cup { f \in {"phone"} : pi.phone # None /\ pi.phone # <<>> /\ PhoneMatchesAtStart(pi.phone) }

\* the points of the fields in fs, in hundredths
PointsOf(fs) ==
  (IF "name" \in fs THEN 100 ELSE 0) + (IF "email" \in fs THEN 100 ELSE 0)
    + (IF "phone" \in fs THEN 100 ELSE 0) + (IF "address" \in fs THEN 80 ELSE 0)

\* conf is the points of the contributing fields over their number, 0.0
\* for none; and it is 0.0 or in [0.8, 1.0]
ConfidenceAsClaimed(pi, conf) ==
  LET fs == Contributed(pi) IN
  /\ conf.den > 0
  /\ IF fs = {} THEN conf.num = 0
     ELSE conf.num * Cardinality(fs) = PointsOf(fs) * conf.den
  /\ \/ conf.num = 0
     \/ 80 * conf.den <= conf.num /\ conf.num <= 100 * conf.den

\* C22: the personal_info confidence is (1.0 for a name) + (1.0 for an e-mail
\* the regex matches) + (1.0 for a phone number the regex matches) + (0.8 for
\* an address) over the number of fields that contributed, 0.0 when none
\* did; so it is 0.0 or within [0.8, 1.0]
C22_PersonalInfoConfidence ==
  /\ ee_out.kind = "record" =>
       ConfidenceAsClaimed(ee_out.rec.personal_info, ee_out.rec.confidence_scores.personal_info)
  /\ ee_out.kind = "confidence" =>
       ConfidenceAsClaimed(ee_out.personal_info, ee_out.value)

\* a name, an e-mail address that is present and not matched, an address:
\* two fields contributed, 1.8 / 2
C22_Witness ==
  /\ ee_out.kind = "confidence"
  /\ ee_out.personal_info.name = <<"A","l","i","c","e">>
  /\ ee_out.personal_info.email = <<"a","@","b">>
  /\ ee_out.personal_info.phone = None
  /\ ee_out.personal_info.address = <<"J","a","k","a","r","t","a">>
  /\ ee_out.value = [num |-> 180, den |-> 2]

\* a phone number that starts with its country code is present and does not
\* contribute: \b finds no word boundary before "+"
C22_PlusNotMatched ==
  /\ ee_out.kind = "confidence"
  /\ ee_out.personal_info.name = None
  /\ ee_out.personal_info.phone = <<"+","6","2"," ","8","1","2","-","3","4","5","6","-","7","8","9">>
  /\ ee_out.personal_info.email = None
  /\ ee_out.personal_info.address = None
  /\ ee_out.value = [num |-> 0, den |-> 1]

\* the record extract_entities built holds the same value
C22_InRecord ==
  /\ ee_out.kind = "record"
  /\ Cardinality(Contributed(ee_out.rec.personal_info)) = 3
  /\ ee_out.rec.confidence_scores.personal_info = [num |-> 300, den |-> 3]

\* ------------------------------------------------------------------------
\* The education and employment histories (entity_extractor.py:127-181)
\* ------------------------------------------------------------------------

\* How many sentences a document with a history has at most
MaxHistorySents == 2

HistoryDocs == SeqsUpTo(SentIds, MaxHistorySents)

InitHistory ==
  /\ ee_doc \in HistoryDocs
  /\ ee_lang \in LangTags
  /\ ee_out = Idle
  /\ DatesUnused
  /\ SkillsUnused
  /\ ValidatorUnused
  /\ CliUnused
  /\ ExporterUnused
  /\ RepeatUnused

\* extract_education(doc, lang_code) on its own
ExtractEducation ==
  /\ ee_out = Idle
  /\ ee_out' = [kind |-> "education", out |-> extract_education(ee_doc, ee_lang)]
  /\ UNCHANGED <<ee_doc, ee_lang, dn_vars, sm_vars, vd_vars, cli_vars, ex_vars, rp_vars>>

\* extract_work_experience(doc, lang_code) on its own
ExtractWorkExperience ==
  /\ ee_out = Idle
  /\ ee_out' = [kind |-> "work_experience", out |-> extract_work_experience(ee_doc, ee_lang)]
  /\ UNCHANGED <<ee_doc, ee_lang, dn_vars, sm_vars, vd_vars, cli_vars, ex_vars, rp_vars>>

NextHistory == ExtractEntities \/ ExtractEducation \/ ExtractWorkExperience

SpecHistory == InitHistory /\ [][NextHistory]_vars

\* ------------------------------------------------------------------------
\* Claims about the histories (checked under SpecHistory)
\* ------------------------------------------------------------------------

\* the labels of the entities of a sentence and their texts, in order
Labelled(s, label) ==
  { i \in DOMAIN SentVocab[s] : SentVocab[s][i].label = label }

\* the k-th smallest element of a set of numbers
Nth(S, k) == CHOOSE i \in S : Cardinality({ j \in S : j < i }) = k - 1

\* the sentence holds one of the keywords, whatever its case
Qualifies(s, keywords) ==
  \E i \in DOMAIN keywords : Contains(Lower(SentText[s]), keywords[i])

\* the sentences of the document an entry comes from: they qualify and
\* hold an organization
Recorded(doc, keywords) ==
  { i \in DOMAIN doc : Qualifies(doc[i], keywords) /\ Labelled(doc[i], "ORG") # {} }

\* the entry of sentence s: its first ORG entity, its first two DATE
\* entities in order (null when it has none)
FirstOrg(s) == SentVocab[s][Nth(Labelled(s, "ORG"), 1)].txt

FirstTwoDates(s) ==
  LET ds == Labelled(s, "DATE") IN
  IF ds = {} THEN None
  ELSE [k \in 1..Min(2, Cardinality(ds)) |-> SentVocab[s][Nth(ds, k)].txt]

\* the education entries are those of the sentences that qualify and hold
\* an organization, in the order of the sentences
EducationAsClaimed(edu, doc, lang_code) ==
  LET from == Recorded(doc, education_keywords[lang_code]) IN
  /\ Len(edu) = Cardinality(from)
  /\ \A k \in DOMAIN edu :
       /\ edu[k].institution = FirstOrg(doc[Nth(from, k)])
       /\ edu[k].dates = FirstTwoDates(doc[Nth(from, k)])
       /\ edu[k].degree = None
       /\ edu[k].field = None

ExperienceAsClaimed(exp, doc, lang_code) ==
  LET from == Recorded(doc, experience_keywords[lang_code]) IN
  /\ Len(exp) = Cardinality(from)
  /\ \A k \in DOMAIN exp :
       /\ exp[k].company = FirstOrg(doc[Nth(from, k)])
       /\ exp[k].dates = FirstTwoDates(doc[Nth(from, k)])
       /\ exp[k].title = None
       /\ exp[k].responsibilities = <<>>

\* C23: education and work experience are scanned sentence by sentence in
\* document order; a sentence that holds a keyword of the language gives
\* exactly one entry, with its first ORG entity as institution or company and
\* its first two DATE entities, in order, as dates; a sentence that holds a
\* keyword and no ORG entity gives no entry; degree, field and title are
\* null and responsibilities are empty
C23_Histories ==
  /\ ee_out.kind = "record" =>
       /\ EducationAsClaimed(ee_out.rec.education, ee_doc, ee_lang)
       /\ ExperienceAsClaimed(ee_out.rec.work_experience, ee_doc, ee_lang)
  /\ ee_out.kind = "education" =>
       IF ee_lang \in SupportedLangs
       THEN ~ee_out.out.raised /\ EducationAsClaimed(ee_out.out.val, ee_doc, ee_lang)
       ELSE ee_out.out.raised
  /\ ee_out.kind = "work_experience" =>
       IF ee_lang \in SupportedLangs
       THEN ~ee_out.out.raised /\ ExperienceAsClaimed(ee_out.out.val, ee_doc, ee_lang)
       ELSE ee_out.out.raised

\* "Education work 2018" has no organization and gives no entry; "degree
\* job Acme MIT 2015 June 2016 2017" gives Acme with the first two dates
C23_Witness ==
  /\ ee_out.kind = "education"
  /\ ee_doc = <<12, 13>>
  /\ ee_lang = "eng"
  /\ ee_out.out.val =
       << [institution |-> <<"A","c","m","e">>, degree |-> None, field |-> None,
           dates |-> <<<<"2","0","1","5">>, <<"J","u","n","e"," ","2","0","1","6">>>>] >>

\* the same for the work experience
C23_WorkWitness ==
  /\ ee_out.kind = "work_experience"
  /\ ee_doc = <<12, 13>>
  /\ ee_lang = "eng"
  /\ ee_out.out.val =
       << [company |-> <<"A","c","m","e">>, title |-> None,
           dates |-> <<<<"2","0","1","5">>, <<"J","u","n","e"," ","2","0","1","6">>>>, responsibilities |-> <<>>] >>

\* two entries in the order of their sentences, under the Indonesian tag;
\* the second has no date and its dates are null
C23_InDocumentOrder ==
  /\ ee_out.kind = "education"
  /\ ee_doc = <<6, 14>>
  /\ ee_lang = "ind"
  /\ Len(ee_out.out.val) = 2
  /\ ee_out.out.val[1].institution = <<"M","I","T">>
  /\ ee_out.out.val[2].institution = <<"U","I">>
  /\ ee_out.out.val[2].dates = None

\* the record extract_entities builds holds the same entries
C23_InRecord ==
  /\ ee_out.kind = "record"
  /\ ee_doc = <<12, 13>>
  /\ Len(ee_out.rec.education) = 1
  /\ Len(ee_out.rec.work_experience) = 1

\* ------------------------------------------------------------------------
\* Claims about the summary (checked under SpecHistory)
\* ------------------------------------------------------------------------

\* t begins with k
StartsWith(t, k) == Len(t) >= Len(k) /\ SubSeq(t, 1, Len(k)) = k

\* the headers of the language that occur in the lower-cased text, by
\* their place in the list
HeadersFound(doc, lang_code) ==
  { j \in DOMAIN summary_headers[lang_code] :
      Contains(Lower(DocText(doc)), summary_headers[lang_code][j]) }

FirstHeader(doc, lang_code) ==
  summary_headers[lang_code][Nth(HeadersFound(doc, lang_code), 1)]

\* C24: when a summary header occurs in the lower-cased text, whatever its
\* letter case in the document, the summary is that of the first header in
\* list order that occurs, with the header stripped from its start: the
\* summary never begins with the header keyword
C24_HeaderStripped ==
  (ee_out.kind = "record" /\ HeadersFound(ee_doc, ee_lang) # {}) =>
    ~StartsWith(Lower(ee_out.rec.summary), FirstHeader(ee_doc, ee_lang))

\* "Summary builds tools": the header is found in the lower-cased text and
\* the summary still begins with it
C24_CapitalKept ==
  /\ ee_out.kind = "record"
  /\ ee_doc = <<11>>
  /\ ee_lang = "eng"
  /\ ee_out.rec.summary = <<"S","u","m","m","a","r","y"," ","b","u","i","l","d","s"," ","t","o","o","l","s">>

\* the header is stripped where the document has it in lower case
C24_LowerCaseStripped ==
  (/\ ee_out.kind = "record"
   /\ HeadersFound(ee_doc, ee_lang) # {}
   /\ Contains(DocText(ee_doc), FirstHeader(ee_doc, ee_lang))
   /\ Find(DocText(ee_doc), FirstHeader(ee_doc, ee_lang))
        = Find(Lower(DocText(ee_doc)), FirstHeader(ee_doc, ee_lang))) =>
    ~StartsWith(Lower(ee_out.rec.summary), FirstHeader(ee_doc, ee_lang))

\* "summary leads teams" gives "leads teams"
C24_LowerCaseSeen ==
  /\ ee_out.kind = "record"
  /\ ee_doc = <<15>>
  /\ ee_lang = "eng"
  /\ ee_out.rec.summary = <<"l","e","a","d","s"," ","t","e","a","m","s">>

\* "Summary builds tools summary leads teams": the header found is the
\* first, the header removed is the second
C24_LaterOneRemoved ==
  /\ ee_out.kind = "record"
  /\ ee_doc = <<11, 15>>
  /\ ee_lang = "eng"
  /\ ee_out.rec.summary = <<"S","u","m","m","a","r","y"," ","b","u","i","l","d","s"," ","t","o","o","l","s"," "," ","l","e","a","d","s"," ","t","e","a","m","s">>

\* ------------------------------------------------------------------------
\* DateNormalizer on texts that are one date expression, or one range
\* ------------------------------------------------------------------------

\* every present indicator of both tables, alone; two of them capitalised
IndicatorTexts ==
  UNION { Range(present_indicators[l]) : l \in SupportedLangs }
    \cup {<<"P","r","e","s","e","n","t">>, <<"O","n","g","o","i","n","g">>}

\* one full date and nothing else
FullDateTexts ==
  {<<"2","0","1","9","-","0","3","-","1","5">>, <<"0","3","/","1","5","/","2","0","1","9">>, <<"1","5"," ","J","a","n","u","a","r","y"," ","2","0","1","9">>, <<"J","a","n","u","a","r","y"," ","1","5",","," ","2","0","1","9">>,
   <<"1","5"," ","J","a","n","u","a","r","i"," ","2","0","1","9">>, <<"1","5","-","0","3","-","2","0","1","9">>}

\* D1 - D2, both full numeric dates
RangeTexts ==
  {<<"0","3","/","1","5","/","2","0","1","9"," ","-"," ","0","4","/","2","0","/","2","0","2","0">>, <<"1","5","/","0","3","/","2","0","1","9"," ","-"," ","2","0","/","0","4","/","2","0","2","0">>,
   <<"2","0","1","9","-","0","3","-","1","5"," ","-"," ","2","0","2","0","-","0","4","-","2","0">>, <<"0","3","/","1","5","/","2","0","1","9"," ","t","o"," ","0","4","/","2","0","/","2","0","2","0">>}

\* digits the patterns accept that no calendar has
OddDateTexts ==
  {<<"0","0","/","1","5","/","2","0","1","9">>, <<"0","3","/","0","0","/","2","0","1","9">>, <<"0","/","0","/","2","0","1","9">>, <<"2","0","1","9","-","0","0","-","1","5">>, <<"2","0","1","9","/","0","3","/","0">>,
   <<"0","0"," ","J","a","n","u","a","r","y"," ","2","0","1","9">>, <<"J","a","n","u","a","r","y"," ","0",","," ","2","0","1","9">>, <<"1","3","/","4","5","/","2","0","1","9">>, <<"2","0","1","9","-","1","3","-","4","5">>,
   <<"4","5"," ","J","a","n","u","a","r","y"," ","2","0","1","9">>, <<"1","5","/","0","3","/","0","0","0","0">>, <<"0"," ","J","a","n","u","a","r","i"," ","2","0","1","9">>}

PhraseTexts == IndicatorTexts \cup FullDateTexts \cup RangeTexts \cup OddDateTexts

InitPhrases ==
  /\ dn_text \in PhraseTexts
  /\ dn_lang \in SupportedLangs
  /\ dn_today \in Todays
  /\ dn_out = Idle
  /\ EntitiesUnused
  /\ SkillsUnused
  /\ ValidatorUnused
  /\ CliUnused
  /\ ExporterUnused
  /\ RepeatUnused

SpecPhrases == InitPhrases /\ [][NextDates]_vars

\* ------------------------------------------------------------------------
\* Claims about single date expressions (checked under SpecPhrases)
\* ------------------------------------------------------------------------

\* the text is one of the present indicators of its language
IndicatorAlone == dn_text \in Range(present_indicators[dn_lang])

\* C25: every word or phrase of a language's present-indicator list, alone
\* in a text of that language, is found by extract_dates as a span flagged
\* as a present indicator and normalized to today, and extract_date_range
\* returns start_date null and end_date today
C25_IndicatorsFound ==
  /\ (dn_out.kind = "dates" /\ IndicatorAlone) =>
       /\ Len(dn_out.dates) = 1
       /\ dn_out.dates[1].is_present
       /\ dn_out.dates[1].normalized = dn_today
  /\ (dn_out.kind = "range" /\ IndicatorAlone) =>
       dn_out.range = DateRange(None, dn_today)

\* 'ongoing' is in the list and in no pattern: no span, no end date
C25_OngoingNotFound ==
  /\ dn_out.kind = "range"
  /\ dn_text = <<"o","n","g","o","i","n","g">>
  /\ dn_lang = "eng"
  /\ dn_out.dates = <<>>
  /\ dn_out.range = DateRange(None, None)

\* so is 'hingga kini'
C25_HinggaKiniNotFound ==
  /\ dn_out.kind = "range"
  /\ dn_text = <<"h","i","n","g","g","a"," ","k","i","n","i">>
  /\ dn_lang = "ind"
  /\ dn_out.dates = <<>>
  /\ dn_out.range = DateRange(None, None)

\* the indicators a pattern of the language matches: the words of the
\* last pattern, and 'sampai sekarang' through its second word
InPattern ==
  \/ dn_lang = "eng" /\ dn_text \in {<<"p","r","e","s","e","n","t">>, <<"c","u","r","r","e","n","t">>, <<"n","o","w">>}
  \/ dn_lang = "ind" /\ dn_text \in {<<"s","e","k","a","r","a","n","g">>, <<"s","a","a","t"," ","i","n","i">>, <<"s","a","m","p","a","i"," ","s","e","k","a","r","a","n","g">>}

\* for those the claim holds
C25_PatternIndicatorsFound ==
  /\ (dn_out.kind = "dates" /\ IndicatorAlone /\ InPattern) =>
       /\ Len(dn_out.dates) = 1
       /\ dn_out.dates[1].is_present
       /\ dn_out.dates[1].normalized = dn_today
  /\ (dn_out.kind = "range" /\ IndicatorAlone /\ InPattern) =>
       dn_out.range = DateRange(None, dn_today)

C25_SampaiSekarang ==
  /\ dn_out.kind = "range"
  /\ dn_text = <<"s","a","m","p","a","i"," ","s","e","k","a","r","a","n","g">>
  /\ dn_lang = "ind"
  /\ dn_out.dates[1].original = <<"s","e","k","a","r","a","n","g">>
  /\ dn_out.range = DateRange(None, dn_today)

\* one full date and nothing else, in a form its language reads
FullDateAlone ==
  \/ dn_lang = "eng" /\ dn_text \in {<<"2","0","1","9","-","0","3","-","1","5">>, <<"0","3","/","1","5","/","2","0","1","9">>, <<"1","5"," ","J","a","n","u","a","r","y"," ","2","0","1","9">>, <<"J","a","n","u","a","r","y"," ","1","5",","," ","2","0","1","9">>}
  \/ dn_lang = "ind" /\ dn_text \in {<<"2","0","1","9","-","0","3","-","1","5">>, <<"1","5","-","0","3","-","2","0","1","9">>, <<"1","5"," ","J","a","n","u","a","r","i"," ","2","0","1","9">>}

\* the normalized form of the whole text
WholeDate == normalize_date(dn_text, dn_lang, dn_today)

\* C26: for a text that is exactly one full date, extract_date_range returns
\* start_date equal to the date's normalized form and end_date null, as for
\* a single span: the year the bare-year pattern finds inside the date does
\* not become an end_date
C26_OneDateOneStart ==
  (dn_out.kind = "range" /\ FullDateAlone) =>
    dn_out.range = DateRange(WholeDate, None)

\* "2019-03-15": the spans are the date and its year, and the year is the
\* end date
C26_YearIsEnd ==
  /\ dn_out.kind = "range"
  /\ dn_text = <<"2","0","1","9","-","0","3","-","1","5">>
  /\ Len(dn_out.dates) = 2
  /\ dn_out.dates[2].original = <<"2","0","1","9">>
  /\ dn_out.range = DateRange(<<"2","0","1","9","-","0","3","-","1","5">>, <<"2","0","1","9","-","0","1","-","0","1">>)

\* the start date is the normalized form of the date, in every case
C26_StartIsTheDate ==
  (dn_out.kind = "range" /\ FullDateAlone) =>
    /\ dn_out.range.start_date = WholeDate
    /\ dn_out.range.end_date = SubSeq(WholeDate, 1, 4) \o <<"-","0","1","-","0","1">>

\* D1 - D2 in the numeric forms of the language
NumericRange ==
  \/ dn_lang = "eng" /\ dn_text \in {<<"0","3","/","1","5","/","2","0","1","9"," ","-"," ","0","4","/","2","0","/","2","0","2","0">>, <<"2","0","1","9","-","0","3","-","1","5"," ","-"," ","2","0","2","0","-","0","4","-","2","0">>}
  \/ dn_lang = "ind" /\ dn_text \in {<<"1","5","/","0","3","/","2","0","1","9"," ","-"," ","2","0","/","0","4","/","2","0","2","0">>, <<"2","0","1","9","-","0","3","-","1","5"," ","-"," ","2","0","2","0","-","0","4","-","2","0">>}

\* C27: for a text "D1 - D2" of two full numeric dates, extract_date_range
\* returns the normalized form of D1, with its month and day, as start_date
\* and the normalized form of D2 as end_date
C27_NumericRange ==
  (dn_out.kind = "range" /\ NumericRange) =>
    dn_out.range = DateRange(<<"2","0","1","9","-","0","3","-","1","5">>, <<"2","0","2","0","-","0","4","-","2","0">>)

\* "03/15/2019 - 04/20/2020": the span before the hyphen is the year of D1
C27_StartIsNewYear ==
  /\ dn_out.kind = "range"
  /\ dn_text = <<"0","3","/","1","5","/","2","0","1","9"," ","-"," ","0","4","/","2","0","/","2","0","2","0">>
  /\ dn_lang = "eng"
  /\ dn_out.range = DateRange(<<"2","0","1","9","-","0","1","-","0","1">>, <<"2","0","2","0","-","0","4","-","2","0">>)

\* the end date is the normalized form of D2, and the year of start_date
\* is that of D1
C27_EndIsTheDate ==
  (dn_out.kind = "range" /\ NumericRange) =>
    /\ dn_out.range.end_date = <<"2","0","2","0","-","0","4","-","2","0">>
    /\ dn_out.range.start_date = <<"2","0","1","9","-","0","1","-","0","1">>

\* a normalized value: YYYY-MM-DD, its month and day as numbers
MonthOf(iso) == ToInt(SubSeq(iso, 6, 7))

DayOf(iso) == ToInt(SubSeq(iso, 9, 10))

IsIsoShaped(iso) ==
  /\ Len(iso) = 10
  /\ iso[5] = "-" /\ iso[8] = "-"
  /\ \A i \in {1, 2, 3, 4, 6, 7, 9, 10} : iso[i] \in Digits

\* C28: every normalized value extract_dates returns is a calendar date in
\* YYYY-MM-DD form, whatever digits the patterns accepted: its month is in
\* 1..12 and its day in 1..28
C28_CalendarDates ==
  (dn_out.kind = "dates") =>
    \A i \in DOMAIN dn_out.dates :
      /\ IsIsoShaped(dn_out.dates[i].normalized)
      /\ MonthOf(dn_out.dates[i].normalized) \in 1..12
      /\ DayOf(dn_out.dates[i].normalized) \in 1..28

\* "0/0/2019" is normalized to 2019-00-00
C28_MonthZero ==
  /\ dn_out.kind = "dates"
  /\ dn_text = <<"0","/","0","/","2","0","1","9">>
  /\ dn_out.dates[1].normalized = <<"2","0","1","9","-","0","0","-","0","0">>

\* what does hold: the form, and the upper limits
C28_UpperLimits ==
  (dn_out.kind = "dates") =>
    \A i \in DOMAIN dn_out.dates :
      /\ IsIsoShaped(dn_out.dates[i].normalized)
      /\ MonthOf(dn_out.dates[i].normalized) \in 0..12
      /\ DayOf(dn_out.dates[i].normalized) \in 0..28

\* "13/45/2019" is cut down to 2019-12-28
C28_CutDown ==
  /\ dn_out.kind = "dates"
  /\ dn_text = <<"1","3","/","4","5","/","2","0","1","9">>
  /\ dn_lang = "eng"
  /\ dn_out.dates[1].normalized = <<"2","0","1","9","-","1","2","-","2","8">>

\* ------------------------------------------------------------------------
\* The tabular exports: Exporter._flatten_data_for_export, export_csv,
\* export_bulk_excel (exporter.py) and export_results (cli.py:75-174)
\*
\* A dict of columns is the sequence of its items in insertion order.  The
\* model follows an export up to the rows it hands to csv or pandas; what
\* those libraries write is not part of it.  A cell made of a set was joined
\* in an order the code does not define, and is kept as the set.
\* ------------------------------------------------------------------------

TypeError == [raised |-> TRUE, val |-> "TypeError"]

\* ', '.join(x): None is not iterable
JoinDates(x) == IF x = None THEN TypeError ELSE Ok(Join(x, <<","," ">>))


\* the result dict of process_single_file for a record (cli.py:58-64)
ResultOf(rec, lang_code) ==
  [filename |-> <<"c","v",".","p","d","f">>, language |-> lang_code, extracted_info |-> rec]

\* 'English' if data['language'] == 'eng' else 'Bahasa Indonesia'
LanguageName(lang_code) ==
  IF lang_code = "eng" THEN <<"E","n","g","l","i","s","h">> ELSE <<"B","a","h","a","s","a"," ","I","n","d","o","n","e","s","i","a">>

\* the columns of the first education entry and of the first experience
FirstEducation(education, dates) ==
  IF education = <<>> THEN <<>>
  ELSE << <<"Education Institution", education[1].institution>>,
          <<"Education Degree", education[1].degree>>,
          <<"Education Dates", dates>> >>

FirstExperience(work_experience, dates) ==
  IF work_experience = <<>> THEN <<>>
  ELSE << <<"Experience Company", work_experience[1].company>>,
          <<"Experience Title", work_experience[1].title>>,
          <<"Experience Dates", dates>> >>

\* Exporter._flatten_data_for_export(data), for a result dict
flatten_data_for_export(data) ==
  LET info == data.extracted_info IN
  LET edu == IF info.education = <<>> THEN Ok(<<>>) ELSE JoinDates(info.education[1].dates) IN
  LET exp == IF info.work_experience = <<>> THEN Ok(<<>>)
             ELSE JoinDates(info.work_experience[1].dates) IN
  IF edu.raised THEN TypeError
  ELSE IF exp.raised THEN TypeError
  ELSE Ok(<< <<"Filename", data.filename>>,
             <<"Language", LanguageName(data.language)>>,
             <<"Language Confidence", <<>>>>,
             <<"Name", info.personal_info.name>>,
             <<"Email", info.personal_info.email>>,
             <<"Phone", info.personal_info.phone>>,
             <<"Address", info.personal_info.address>>,
             <<"Skills", info.skills>>,
             <<"Languages", info.languages>>,
             <<"Certifications", info.certifications>>,
             <<"Summary", info.summary>> >>
          \o FirstEducation(info.education, edu.val)
          \o FirstExperience(info.work_experience, exp.val)
          \o << <<"Overall Confidence", info.confidence_scores.overall>>,
                <<"Personal Info Confidence", info.confidence_scores.personal_info>>,
                <<"Skills Confidence", info.confidence_scores.skills>> >>)

\* Exporter.export_csv(data, output_path): the row handed to csv
export_csv(data) ==
  LET flattened == flatten_data_for_export(data) IN
  IF flattened.raised THEN TypeError ELSE Ok(<<flattened.val>>)

RECURSIVE EntryRows(_, _)
\* the rows of the Education or Work Experience sheet for one result: the
\* first entry whose dates cannot be joined ends the export
EntryRows(entries, i) ==
  IF i > Len(entries) THEN Ok(<<>>)
  ELSE LET dates == JoinDates(entries[i].dates) IN
       IF dates.raised THEN TypeError
       ELSE LET rest == EntryRows(entries, i + 1) IN
            IF rest.raised THEN TypeError
            ELSE Ok(<< <<entries[i], dates.val>> >> \o rest.val)

\* the sheets after the summary, for one result
DetailSheets(result) ==
  LET edu_data == EntryRows(result.extracted_info.education, 1) IN
  LET exp_data == EntryRows(result.extracted_info.work_experience, 1) IN
  IF edu_data.raised THEN TypeError
  ELSE IF exp_data.raised THEN TypeError
  ELSE Ok([education |-> edu_data.val, work_experience |-> exp_data.val])

\* Exporter.export_bulk_excel(results, output_path) for one result: the
\* summary rows, then the sheets
export_bulk_excel(result) ==
  LET flattened == flatten_data_for_export(result) IN
  IF flattened.raised THEN TypeError
  ELSE LET sheets == DetailSheets(result) IN
       IF sheets.raised THEN TypeError
       ELSE Ok([summary |-> <<flattened.val>>, sheets |-> sheets.val])

\* the row of the CSV and of the Summary sheet (cli.py:86-97, 115-126)
SummaryRow(result) ==
  << <<"Filename", result.filename>>,
     <<"Language", LanguageName(result.language)>>,
     <<"Name", result.extracted_info.personal_info.name>>,
     <<"Email", result.extracted_info.personal_info.email>>,
     <<"Phone", result.extracted_info.personal_info.phone>>,
     <<"Address", result.extracted_info.personal_info.address>>,
     <<"Skills", result.extracted_info.skills>>,
     <<"Languages", result.extracted_info.languages>>,
     <<"Summary", result.extracted_info.summary>>,
     <<"Overall Confidence", result.extracted_info.confidence_scores.overall>> >>

\* export_results(results, output_path, format) of cli.py for one result
\* without 'error', format "csv" or "xlsx"
cli_export_results(result, format) ==
  IF format = "csv" THEN Ok([summary |-> <<SummaryRow(result)>>])
  ELSE LET sheets == DetailSheets(result) IN
       IF sheets.raised THEN TypeError
       ELSE Ok([summary |-> <<SummaryRow(result)>>, sheets |-> sheets.val])

\* the record extract_entities returned is exported
Exportable == ee_out.kind = "record" /\ ex_out = Idle

ExportCsv ==
  /\ Exportable
  /\ ex_out' = [kind |-> "export", by |-> "export_csv",
                out |-> export_csv(ResultOf(ee_out.rec, ee_lang))]
  /\ UNCHANGED <<ee_vars, dn_vars, sm_vars, vd_vars, cli_vars, ex_data, ex_file, rp_vars>>

ExportBulkExcel ==
  /\ Exportable
  /\ ex_out' = [kind |-> "export", by |-> "export_bulk_excel",
                out |-> export_bulk_excel(ResultOf(ee_out.rec, ee_lang))]
  /\ UNCHANGED <<ee_vars, dn_vars, sm_vars, vd_vars, cli_vars, ex_data, ex_file, rp_vars>>

CliExportResults ==
  /\ Exportable
  /\ \E format \in {"csv", "xlsx"} :
       ex_out' = [kind |-> "export", by |-> format,
                  out |-> cli_export_results(ResultOf(ee_out.rec, ee_lang), format)]
  /\ UNCHANGED <<ee_vars, dn_vars, sm_vars, vd_vars, cli_vars, ex_data, ex_file, rp_vars>>

NextTabular == ExtractEntities \/ ExportCsv \/ ExportBulkExcel \/ CliExportResults

SpecTabular == InitExport /\ [][NextTabular]_vars

\* ------------------------------------------------------------------------
\* Claims about the tabular exports (checked under SpecTabular)
\* ------------------------------------------------------------------------

TableExported == ex_out # Idle

\* C29: every record extract_entities can return, those with entries whose
\* dates are null and those with a null name, e-mail or summary included,
\* passes through the CSV and XLSX exports without an error
C29_ExportsNeverRaise ==
  TableExported => ~ex_out.out.raised

\* the document "work Acme": one experience without a date, and
\* export_bulk_excel raises TypeError
C29_NullDatesRaise ==
  /\ TableExported
  /\ ee_doc = <<7>>
  /\ ee_out.rec.work_experience[1].dates = None
  /\ ex_out.by = "export_bulk_excel"
  /\ ex_out.out = TypeError

\* some entry of the record has null dates
NullDates(rec) ==
  \/ \E i \in DOMAIN rec.education : rec.education[i].dates = None
  \/ \E i \in DOMAIN rec.work_experience : rec.work_experience[i].dates = None

\* the first education entry or the first experience has null dates
NullFirstDates(rec) ==
  \/ rec.education # <<>> /\ rec.education[1].dates = None
  \/ rec.work_experience # <<>> /\ rec.work_experience[1].dates = None

\* an export raises exactly for the records with such an entry: the first
\* entries for export_csv, every entry for the two XLSX exports, and none
\* for the CSV of cli.py, which has no dates column
C29_OnlyNullDatesRaise ==
  TableExported =>
    (ex_out.out.raised <=>
       IF ex_out.by = "export_csv" THEN NullFirstDates(ee_out.rec)
       ELSE IF ex_out.by = "csv" THEN FALSE
       ELSE NullDates(ee_out.rec))

\* a record with null name, e-mail and summary and no entry is exported
C29_NullNamePasses ==
  /\ TableExported
  /\ ee_out.rec.personal_info.name = None
  /\ ee_out.rec.personal_info.email = None
  /\ ee_out.rec.summary = None
  /\ ex_out.by = "export_csv"
  /\ ~ex_out.out.raised

\* ------------------------------------------------------------------------
\* Claims about the order of the bulk results (checked under FairBulk)
\* ------------------------------------------------------------------------

\* the results collected so far are those of the first files, in the order
\* of file_paths
InFileOrder ==
  (cli_phase \in {"collecting", "exported"}) =>
    /\ Len(cli_results) = cli_next - 1
    /\ \A i \in DOMAIN cli_results :
         /\ cli_future[i].kind = "result"
         /\ cli_results[i] = cli_future[i].val
         /\ cli_results[i].filename = basename(cli_files[i])

\* every submitted call has completed and its result is in the list
AllCompleted ==
  /\ \A i \in DOMAIN cli_files : cli_stage[i] = "done" /\ cli_future[i] # Pending
  /\ Len(cli_results) = Len(cli_files)

\* C30: in bulk mode, in whatever order the workers finish, results holds
\* the results of the files in the order of the discovered file list, and
\* export_results is called exactly once, after the future of every
\* submitted file has completed
C30_OrderedThenExported ==
  /\ []InFileOrder
  /\ [][ExportResults => AllCompleted]_vars
  /\ [][cli_phase = "exported" => cli_phase' = "exported"]_vars
  /\ [](cli_files # <<>> => <>(cli_phase = "exported"))

\* the third file has finished before the second, and results holds the
\* result of the first file only
C30_Witness ==
  /\ cli_phase = "collecting"
  /\ Len(cli_files) = 3
  /\ cli_stage[3] = "done"
  /\ cli_stage[2] \notin {"queued", "done"}
  /\ cli_next = 2
  /\ cli_results = <<cli_future[1].val>>

\* the run has ended: three results in the order of the files, the last
\* to finish among them
C30_AllInOrder ==
  /\ cli_phase = "exported"
  /\ Len(cli_files) = 3
  /\ cli_results = <<cli_future[1].val, cli_future[2].val, cli_future[3].val>>
  /\ cli_results[1] # cli_results[2]
  /\ cli_results[2] # cli_results[3]

====
